---- MODULE Spec2Model ----
(***************************************************************************)
(* GrabNthrow: the per-frame loop Game.update (hand sampling, grab / hold  *)
(* / throw, rigid-body integration, pairwise collisions).                  *)
(*                                                                         *)
(* Numbers are fixed point.  Lengths are in 1/1000 of a world unit,        *)
(* velocities in 1/1000 unit per second, angular velocities in 1/1000      *)
(* rad/s, normalised landmark and screen coordinates in 1/1000, unit       *)
(* vectors and factors in 1/1000, times in milliseconds.  Divisions round  *)
(* toward zero.                                                            *)
(***************************************************************************)
EXTENDS Integers, Sequences, FiniteSets, TLC

(* ------------------------------ bounds -------------------------------- *)

\* number of frames (calls of Game.update) a behaviour runs
MaxTicks == 4

(* ------------------------- program constants -------------------------- *)

GRAVITY_Y == -9810
GROUND_Y == 1
DAMPING_FACTOR == 980
ANGULAR_DAMPING_FACTOR == 950
COLLISION_ELASTICITY == 700
BALL_RADIUS == 250
COLLISION_DEBOUNCE == 100
LERP_FACTOR == 800
BOUND_X == 10000
BOUND_Z == 10000
GRAB_GESTURE_THRESHOLD == 70
GRAB_THRESHOLD == 1200
THROW_FORCE == 15000
THROW_HISTORY_LENGTH == 5
NUM_OBJECTS == 6
MAX_ATTEMPTS == 20
MIN_PLACEMENT_DISTANCE == 800
SPHERE_GEOMETRY_RADIUS == 250
MIN_SIZE == 50
MAX_SIZE == 300
NEAR_DISTANCE == 2000
FAR_DISTANCE == 7000
\* colours, as the numbers of their hex codes: emissive 0x222222 of a
\* highlighted body and 0x333333 of a grabbed one, colour 0x00ff00 of the hand
\* indicator while grabbing and 0xffff00 otherwise
HIGHLIGHT_EMISSIVE == 2236962
GRAB_EMISSIVE == 3355443
GRABBING_COLOR == 65280
IDLE_COLOR == 16776960

(* --------------------------- integer helpers -------------------------- *)

Abs(a) == IF a < 0 THEN -a ELSE a

Sign(a) == IF a > 0 THEN 1 ELSE IF a < 0 THEN -1 ELSE 0

Max(a, b) == IF a >= b THEN a ELSE b

Min(a, b) == IF a <= b THEN a ELSE b

\* a / b rounded toward zero (b > 0)
Quot(a, b) == IF a >= 0 THEN a \div b ELSE -((-a) \div b)

RECURSIVE SqrtIter(_, _)
SqrtIter(n, g) ==
    LET h == (g + n \div g) \div 2
    IN  IF h >= g THEN g ELSE SqrtIter(n, h)

\* a power of two that is at least the square root of n (n < 2^31)
SqrtGuess(n) ==
    IF n < 1024 THEN 32
    ELSE IF n < 65536 THEN 256
    ELSE IF n < 1048576 THEN 1024
    ELSE IF n < 16777216 THEN 4096
    ELSE IF n < 268435456 THEN 16384
    ELSE 46341

\* floor of the square root (Math.sqrt)
ISqrt(n) == IF n < 2 THEN n ELSE SqrtIter(n, SqrtGuess(n))

(* ------------------------- THREE.Vector3 ------------------------------ *)

Zero3 == <<0, 0, 0>>

VAdd(a, b) == <<a[1] + b[1], a[2] + b[2], a[3] + b[3]>>

VSub(a, b) == <<a[1] - b[1], a[2] - b[2], a[3] - b[3]>>

\* v * k, k in 1/1000
VScale(v, k) == <<Quot(v[1] * k, 1000), Quot(v[2] * k, 1000), Quot(v[3] * k, 1000)>>

VLenSq(v) == v[1] * v[1] + v[2] * v[2] + v[3] * v[3]

VLen(v) == ISqrt(VLenSq(v))

VDist(a, b) == VLen(VSub(a, b))

\* a.distanceTo(b) < d, for d >= 0
VCloser(a, b, d) == VLenSq(VSub(a, b)) < d * d

\* a . n for a unit vector n in 1/1000
VDotUnit(a, n) == Quot(a[1] * n[1] + a[2] * n[2] + a[3] * n[3], 1000)

\* Vector3.normalize: divideScalar(length() || 1); the result is in 1/1000
VNormalize(v) ==
    LET len == VLen(v)
        d == IF len = 0 THEN 1 ELSE len
    IN  <<Quot(v[1] * 1000, d), Quot(v[2] * 1000, d), Quot(v[3] * 1000, d)>>

\* Vector3.lerp(target, alpha)
VLerp(p, target, alpha) == VAdd(p, VScale(VSub(target, p), alpha))

VCross(a, b) ==
    << Quot(a[2] * b[3] - a[3] * b[2], 1000),
       Quot(a[3] * b[1] - a[1] * b[3], 1000),
       Quot(a[1] * b[2] - a[2] * b[1], 1000) >>

(* ------------------------- the hand-pose sensor ----------------------- *)

\* results.landmarks[0]: the landmarks the core reads (4 thumb tip, 8 index
\* tip, 0/5/9/13/17 wrist and finger bases) and the length of the list
Hand(thumbTip, indexTip, palmStart, palmStep) ==
    [ n     |-> 21,
      thumb |-> thumbTip,
      index |-> indexTip,
      palm  |-> [k \in 1..5 |-> <<palmStart[1] + (k - 1) * palmStep, palmStart[2]>>] ]

\* handData.landmarks = null
NoLandmarks == [ n |-> 0, thumb |-> Zero3, index |-> Zero3,
                 palm |-> [k \in 1..5 |-> <<0, 0>>] ]

\* a pinching hand at the middle of the image, palm spread 0.2
PinchNear == Hand(<<520, 500, 0>>, <<500, 500, 0>>, <<300, 700>>, 100)

\* an open hand at the same place
OpenNear == Hand(<<600, 500, 0>>, <<500, 500, 0>>, <<300, 700>>, 100)

\* a pinching hand that looks small (far away), a little lower in the image
PinchFar == Hand(<<520, 560, 0>>, <<500, 560, 0>>, <<450, 700>>, 25)

\* what detectForVideo can return for a new video frame
DetectResults == {NoLandmarks, PinchNear, OpenNear, PinchFar}

\* clock.getDelta() of the frames after the first, in ms
DeltaTimes == {16, 100}

\* performance.now() when the animation loop starts, in ms
StartTime == 1000

\* The values Math.random() takes in the model, as triples (three calls)
RandomTriples == { <<500, 500, 500>>, <<999, 0, 750>> }

\* ProcessFrame with a frame without a hand leaving isGrabbing as it was
ProcessFrameKeepsGrab(ht, results) ==
    IF results.n > 0
    THEN LET screen == <<1000 - results.index[1], results.index[2]>>
         IN  [ ht EXCEPT
                 !.landmarks = results,
                 !.prevScreenPosition = ht.screenPosition,
                 !.screenPosition = screen,
                 !.handMovement = << screen[1] - ht.screenPosition[1],
                                     screen[2] - ht.screenPosition[2] >>,
                 !.isGrabbing = VDist(results.thumb, results.index)
                                    < GRAB_GESTURE_THRESHOLD ]
    ELSE [ ht EXCEPT !.landmarks = NoLandmarks, !.handMovement = <<0, 0>> ]

\* ProcessFrame taking a pinch distance equal to the threshold for a grab
ProcessFrameInclusive(ht, results) ==
    IF results.n > 0
    THEN LET screen == <<1000 - results.index[1], results.index[2]>>
         IN  [ ht EXCEPT
                 !.landmarks = results,
                 !.prevScreenPosition = ht.screenPosition,
                 !.screenPosition = screen,
                 !.handMovement = << screen[1] - ht.screenPosition[1],
                                     screen[2] - ht.screenPosition[2] >>,
                 !.isGrabbing = VDist(results.thumb, results.index)
                                    <= GRAB_GESTURE_THRESHOLD ]
    ELSE [ ht EXCEPT
             !.landmarks = NoLandmarks,
             !.isGrabbing = FALSE,
             !.handMovement = <<0, 0>> ]

\* HandTracker.update, the branch taken for a new video frame
ProcessFrame(ht, results) ==
    IF results.n > 0
    THEN LET indexTip == results.index
             thumbTip == results.thumb
             screen == <<1000 - indexTip[1], indexTip[2]>>
             distance == VDist(thumbTip, indexTip)
         IN  [ ht EXCEPT
                 !.landmarks = results,
                 !.prevScreenPosition = ht.screenPosition,
                 !.screenPosition = screen,
                 !.handMovement = << screen[1] - ht.screenPosition[1],
                                     screen[2] - ht.screenPosition[2] >>,
                 !.isGrabbing = distance < GRAB_GESTURE_THRESHOLD ]
    ELSE [ ht EXCEPT
             !.landmarks = NoLandmarks,
             !.isGrabbing = FALSE,
             !.handMovement = <<0, 0>> ]

\* HandTrackerUpdate processing the frame whatever the video time
HandTrackerUpdateAlways(ht, videoTime, results) ==
    ProcessFrame([ht EXCEPT !.lastVideoTime = videoTime], results)

\* HandTracker.update: a frame is processed only when the video time changed
HandTrackerUpdate(ht, videoTime, results) ==
    IF videoTime # ht.lastVideoTime
    THEN ProcessFrame([ht EXCEPT !.lastVideoTime = videoTime], results)
    ELSE ht

RECURSIVE PairDistanceSum(_, _, _)
PairDistanceSum(palm, i, j) ==
    IF i > 5 THEN 0
    ELSE IF j > 5 THEN PairDistanceSum(palm, i + 1, i + 2)
    ELSE ISqrt( (palm[i][1] - palm[j][1]) * (palm[i][1] - palm[j][1])
              + (palm[i][2] - palm[j][2]) * (palm[i][2] - palm[j][2]) )
         + PairDistanceSum(palm, i, j + 1)

\* EstimateDepth without the inversion (a larger hand giving a larger value)
EstimateDepthNotInverted(landmarks) ==
    IF landmarks.n = 0 THEN 500
    ELSE IF landmarks.n < 5 THEN 500
    ELSE LET avgSize == PairDistanceSum(landmarks.palm, 1, 2) \div 10
             normalizedDepth == Quot((avgSize - MIN_SIZE) * 1000, MAX_SIZE - MIN_SIZE)
         IN  Max(0, Min(1000, normalizedDepth))

\* HandTracker.estimateDepth, in 1/1000
EstimateDepth(landmarks) ==
    IF landmarks.n = 0 THEN 500
    ELSE IF landmarks.n < 5 THEN 500
    ELSE LET avgSize == PairDistanceSum(landmarks.palm, 1, 2) \div 10
             normalizedDepth == Quot((avgSize - MIN_SIZE) * 1000, MAX_SIZE - MIN_SIZE)
         IN  1000 - Max(0, Min(1000, normalizedDepth))

(* ------------------------------ the camera ---------------------------- *)

\* camera.position.set(0, 2, 4); camera.lookAt(0, 0.5, 0); fov 75, aspect 1
CameraPosition == <<0, 2000, 4000>>

CameraTarget == <<0, 500, 0>>

CameraForward == VNormalize(VSub(CameraTarget, CameraPosition))

CameraRight == VNormalize(VCross(CameraForward, <<0, 1000, 0>>))

CameraUp == VCross(CameraRight, CameraForward)

\* tan(75 degrees / 2), in 1/1000
TanHalfFov == 767

\* clientWidth / clientHeight of the render surface, in 1/1000
Aspect == 1000

\* the direction of the camera ray through a screen position (0..1, y down)
RayDirection(screen) ==
    LET ndcX == screen[1] * 2 - 1000
        ndcY == -(screen[2] * 2 - 1000)
        kx == Quot(Quot(ndcX * TanHalfFov, 1000) * Aspect, 1000)
        ky == Quot(ndcY * TanHalfFov, 1000)
    IN  VNormalize(VAdd(CameraForward,
                        VAdd(VScale(CameraRight, kx), VScale(CameraUp, ky))))

\* SceneManager.updateWorldPositionFromScreen
UpdateWorldPositionFromScreen(screen, depthFactor) ==
    LET adjustedDistance ==
            NEAR_DISTANCE + Quot(depthFactor * (FAR_DISTANCE - NEAR_DISTANCE), 1000)
    IN  VAdd(CameraPosition, VScale(RayDirection(screen), adjustedDistance))

(* --------------------------- PhysicsObject ---------------------------- *)

\* new PhysicsObject(mesh, initialPosition)
NewPhysicsObject(initialPosition) ==
    [ position |->
          IF initialPosition[2] < GROUND_Y + BALL_RADIUS
          THEN <<initialPosition[1], GROUND_Y + BALL_RADIUS + 20, initialPosition[3]>>
          ELSE initialPosition,
      velocity |-> Zero3,
      angularVelocity |-> Zero3,
      isHeld |-> FALSE,
      lastCollisionTime |-> 0,
      emissive |-> 0 ]

\* PhysicsObject.grab
Grab(o) ==
    [ o EXCEPT !.isHeld = TRUE, !.velocity = Zero3, !.angularVelocity = Zero3,
               !.emissive = GRAB_EMISSIVE ]

\* (Math.random() - 0.5) * k for three calls, k in 1/1000
RandomSpin(rnd, k) ==
    << Quot((rnd[1] - 500) * k, 1000),
       Quot((rnd[2] - 500) * k, 1000),
       Quot((rnd[3] - 500) * k, 1000) >>

\* Release leaving the held flag set
ReleaseKeepsHeld(o, direction, force, rnd) ==
    [ o EXCEPT !.velocity = VScale(VNormalize(direction), force),
               !.emissive = 0,
               !.angularVelocity = RandomSpin(rnd, 4000) ]

\* PhysicsObject.release(direction, force)
Release(o, direction, force, rnd) ==
    [ o EXCEPT !.isHeld = FALSE,
               !.velocity = VScale(VNormalize(direction), force),
               !.emissive = 0,
               !.angularVelocity = RandomSpin(rnd, 4000) ]

\* CheckCollision without the 100 ms debounce
CheckCollisionNoDebounce(this, other, now) ==
    IF this.isHeld \/ other.isHeld THEN FALSE
    ELSE VCloser(this.position, other.position, BALL_RADIUS + BALL_RADIUS)

\* CheckCollision without the test for held bodies
CheckCollisionIgnoringHeld(this, other, now) ==
    IF now - this.lastCollisionTime < COLLISION_DEBOUNCE THEN FALSE
    ELSE VCloser(this.position, other.position, BALL_RADIUS + BALL_RADIUS)

\* PhysicsObject.checkCollision: the value returned
CheckCollision(this, other, now) ==
    IF this.isHeld \/ other.isHeld THEN FALSE
    ELSE IF now - this.lastCollisionTime < COLLISION_DEBOUNCE THEN FALSE
    ELSE VCloser(this.position, other.position, BALL_RADIUS + BALL_RADIUS)

\* PhysicsObject.checkCollision: the querying body after the call
StampCollision(this, other, now) ==
    IF CheckCollision(this, other, now)
    THEN [this EXCEPT !.lastCollisionTime = now]
    ELSE this

\* ResolveCollision with the position correction applied the wrong way round
ResolveCollisionPullsTogether(this, other, rndThis, rndOther) ==
    LET collisionNormal == VNormalize(VSub(this.position, other.position))
        velAlongNormal ==
            VDotUnit(VSub(this.velocity, other.velocity), collisionNormal)
        impulse ==
            VScale(collisionNormal,
                   Quot(Quot(-(1000 + COLLISION_ELASTICITY) * velAlongNormal, 1000), 2))
        penetrationDepth ==
            (BALL_RADIUS + BALL_RADIUS) - VDist(this.position, other.position)
        correction ==
            IF penetrationDepth > 0
            THEN VScale(collisionNormal, Quot(penetrationDepth * 600, 1000))
            ELSE Zero3
    IN  IF velAlongNormal > 0 THEN <<this, other>>
        ELSE << [ this EXCEPT
                    !.velocity = VAdd(this.velocity, impulse),
                    !.position = VSub(this.position, correction),
                    !.angularVelocity =
                        VAdd(this.angularVelocity, RandomSpin(rndThis, 800)) ],
                [ other EXCEPT
                    !.velocity = VSub(other.velocity, impulse),
                    !.position = VAdd(other.position, correction),
                    !.angularVelocity =
                        VAdd(other.angularVelocity, RandomSpin(rndOther, 800)) ] >>

\* ResolveCollision without the early return for bodies moving apart
ResolveCollisionAlways(this, other, rndThis, rndOther) ==
    LET collisionNormal == VNormalize(VSub(this.position, other.position))
        velAlongNormal ==
            VDotUnit(VSub(this.velocity, other.velocity), collisionNormal)
        impulse ==
            VScale(collisionNormal,
                   Quot(Quot(-(1000 + COLLISION_ELASTICITY) * velAlongNormal, 1000), 2))
        penetrationDepth ==
            (BALL_RADIUS + BALL_RADIUS) - VDist(this.position, other.position)
        correction ==
            IF penetrationDepth > 0
            THEN VScale(collisionNormal, Quot(penetrationDepth * 600, 1000))
            ELSE Zero3
    IN  << [ this EXCEPT
               !.velocity = VAdd(this.velocity, impulse),
               !.position = VAdd(this.position, correction),
               !.angularVelocity =
                   VAdd(this.angularVelocity, RandomSpin(rndThis, 800)) ],
           [ other EXCEPT
               !.velocity = VSub(other.velocity, impulse),
               !.position = VSub(other.position, correction),
               !.angularVelocity =
                   VAdd(other.angularVelocity, RandomSpin(rndOther, 800)) ] >>

\* ResolveCollision with the whole impulse j given to each body
ResolveCollisionFullImpulse(this, other, rndThis, rndOther) ==
    LET collisionNormal == VNormalize(VSub(this.position, other.position))
        velAlongNormal ==
            VDotUnit(VSub(this.velocity, other.velocity), collisionNormal)
        impulse ==
            VScale(collisionNormal,
                   Quot(-(1000 + COLLISION_ELASTICITY) * velAlongNormal, 1000))
        penetrationDepth ==
            (BALL_RADIUS + BALL_RADIUS) - VDist(this.position, other.position)
        correction ==
            IF penetrationDepth > 0
            THEN VScale(collisionNormal, Quot(penetrationDepth * 600, 1000))
            ELSE Zero3
    IN  IF velAlongNormal > 0 THEN <<this, other>>
        ELSE << [ this EXCEPT
                    !.velocity = VAdd(this.velocity, impulse),
                    !.position = VAdd(this.position, correction),
                    !.angularVelocity =
                        VAdd(this.angularVelocity, RandomSpin(rndThis, 800)) ],
                [ other EXCEPT
                    !.velocity = VSub(other.velocity, impulse),
                    !.position = VSub(other.position, correction),
                    !.angularVelocity =
                        VAdd(other.angularVelocity, RandomSpin(rndOther, 800)) ] >>

\* PhysicsObject.resolveCollision: <<this, other>> after the call
ResolveCollision(this, other, rndThis, rndOther) ==
    LET collisionNormal == VNormalize(VSub(this.position, other.position))
        relativeVelocity == VSub(this.velocity, other.velocity)
        velAlongNormal == VDotUnit(relativeVelocity, collisionNormal)
        j == Quot(-(1000 + COLLISION_ELASTICITY) * velAlongNormal, 1000)
        j_div_2 == Quot(j, 2)
        impulse == VScale(collisionNormal, j_div_2)
        penetrationDepth ==
            (BALL_RADIUS + BALL_RADIUS) - VDist(this.position, other.position)
        correction ==
            IF penetrationDepth > 0
            THEN VScale(collisionNormal, Quot(penetrationDepth * 600, 1000))
            ELSE Zero3
    IN  IF velAlongNormal > 0 THEN <<this, other>>
        ELSE << [ this EXCEPT
                    !.velocity = VAdd(this.velocity, impulse),
                    !.position = VAdd(this.position, correction),
                    !.angularVelocity =
                        VAdd(this.angularVelocity, RandomSpin(rndThis, 800)) ],
                [ other EXCEPT
                    !.velocity = VSub(other.velocity, impulse),
                    !.position = VSub(other.position, correction),
                    !.angularVelocity =
                        VAdd(other.angularVelocity, RandomSpin(rndOther, 800)) ] >>

\* UpdateHeld putting the body at the hand position at once
UpdateHeldSnap(o, handPosition) ==
    [ o EXCEPT !.position = handPosition,
               !.velocity = Zero3,
               !.angularVelocity = Zero3 ]

\* PhysicsObject.update, the branch of a held body that is given a hand position
UpdateHeld(o, handPosition) ==
    [ o EXCEPT !.position = VLerp(o.position, handPosition, LERP_FACTOR),
               !.velocity = Zero3,
               !.angularVelocity = Zero3 ]

\* GroundBounce that only slows the spin down, whatever the velocity
GroundBounceDampsOnly(o) ==
    IF o.position[2] < GROUND_Y + BALL_RADIUS
    THEN [ o EXCEPT
             !.position = <<o.position[1], GROUND_Y + BALL_RADIUS, o.position[3]>>,
             !.velocity = << Quot(o.velocity[1] * 900, 1000),
                             Quot(o.velocity[2] * (-500), 1000),
                             Quot(o.velocity[3] * 900, 1000) >>,
             !.angularVelocity = VScale(o.angularVelocity, 900) ]
    ELSE o

\* the ground bounce of PhysicsObject.update
GroundBounce(o) ==
    IF o.position[2] < GROUND_Y + BALL_RADIUS
    THEN LET v == << Quot(o.velocity[1] * 900, 1000),
                     Quot(o.velocity[2] * (-500), 1000),
                     Quot(o.velocity[3] * 900, 1000) >>
             rollAxis == VNormalize(<<-v[3], 0, v[1]>>)
             rollSpeed == Quot(VLen(v) * 1000, BALL_RADIUS)
         IN  [ o EXCEPT
                 !.position = <<o.position[1], GROUND_Y + BALL_RADIUS, o.position[3]>>,
                 !.velocity = v,
                 !.angularVelocity =
                     IF VLen(rollAxis) > 10
                     THEN VScale(rollAxis, rollSpeed)
                     ELSE VScale(o.angularVelocity, 900) ]
    ELSE o

\* BoundaryBounce putting the body back on the bound without reflecting it
BoundaryBounceNoReflection(o) ==
    LET hitX == Abs(o.position[1]) > BOUND_X - BALL_RADIUS
        hitZ == Abs(o.position[3]) > BOUND_Z - BALL_RADIUS
    IN  [ o EXCEPT
            !.position =
                << IF hitX THEN Sign(o.position[1]) * (BOUND_X - BALL_RADIUS)
                   ELSE o.position[1],
                   o.position[2],
                   IF hitZ THEN Sign(o.position[3]) * (BOUND_Z - BALL_RADIUS)
                   ELSE o.position[3] >> ]

\* the boundary checks of PhysicsObject.update
BoundaryBounce(o) ==
    LET hitX == Abs(o.position[1]) > BOUND_X - BALL_RADIUS
        hitZ == Abs(o.position[3]) > BOUND_Z - BALL_RADIUS
    IN  [ o EXCEPT
            !.position =
                << IF hitX THEN Sign(o.position[1]) * (BOUND_X - BALL_RADIUS)
                   ELSE o.position[1],
                   o.position[2],
                   IF hitZ THEN Sign(o.position[3]) * (BOUND_Z - BALL_RADIUS)
                   ELSE o.position[3] >>,
            !.velocity =
                << IF hitX THEN Quot(o.velocity[1] * (-500), 1000) ELSE o.velocity[1],
                   o.velocity[2],
                   IF hitZ THEN Quot(o.velocity[3] * (-500), 1000) ELSE o.velocity[3] >> ]

\* gravity, the advance of the position and the damping of PhysicsObject.update
\* (deltaTime in ms)
Advance(o, deltaTime) ==
    LET v1 == <<o.velocity[1], o.velocity[2] + Quot(GRAVITY_Y * deltaTime, 1000),
                o.velocity[3]>>
        p1 == VAdd(o.position, VScale(v1, deltaTime))
    IN  [ o EXCEPT
            !.position = p1,
            !.velocity = VScale(v1, DAMPING_FACTOR),
            !.angularVelocity =
                VScale(o.angularVelocity, ANGULAR_DAMPING_FACTOR) ]

\* the body as the boundary checks of PhysicsObject.update find it
BeforeBoundaryCheck(o, deltaTime) == GroundBounce(Advance(o, deltaTime))

\* PhysicsObject.update, the branch of a body that is not held (deltaTime in ms)
UpdateFree(o, deltaTime) == BoundaryBounce(BeforeBoundaryCheck(o, deltaTime))

\* Update integrating a held body like a free one
UpdateIgnoringHeld(o, deltaTime, handPosition) == UpdateFree(o, deltaTime)

\* PhysicsObject.update(deltaTime, handPosition); handPosition is <<>> for null
Update(o, deltaTime, handPosition) ==
    IF o.isHeld /\ handPosition # <<>> THEN UpdateHeld(o, handPosition)
    ELSE IF ~o.isHeld THEN UpdateFree(o, deltaTime)
    ELSE o

\* new Game(): the hand indicator of _setupHandIndicator, emissive 0xccaa00
\* as <<r, g, b>>
NewHandIndicator ==
    [ position |-> Zero3, visible |-> FALSE, emissive |-> <<204, 170, 0>>,
      color |-> IDLE_COLOR ]

\* depthColor: red for a near hand, blue for a far one, as <<r, g, b>>
DepthColor(depthEstimate) ==
    << (255 * depthEstimate) \div 1000, 50, (255 * (1000 - depthEstimate)) \div 1000 >>

(* ------------------------ Game: scene set-up -------------------------- *)

Bodies == 1..NUM_OBJECTS

\* the random position of one placement attempt, from three Math.random() values
RandomPosition(rnd) ==
    << Quot((rnd[1] - 500) * 4000, 1000),
       500 + Quot(rnd[2] * 1500, 1000),
       Quot((rnd[3] - 500) * 2000, 1000) - 1000 >>

\* the line-up position used when no attempt succeeds (i counts from 0)
FallbackPosition(i) == <<i * 800 - 2000, 500 + i * 200, -1000>>

ValidPosition(position, existingPositions) ==
    \A k \in 1..Len(existingPositions) :
        ~VCloser(position, existingPositions[k], MIN_PLACEMENT_DISTANCE)

\* the position the while loop ends with: <<p>>, or <<>> after 20 failed attempts
RECURSIVE FirstValid(_, _, _)
FirstValid(stream, existingPositions, attempts) ==
    IF attempts >= MAX_ATTEMPTS THEN <<>>
    ELSE LET position == RandomPosition(stream[attempts + 1])
         IN  IF ValidPosition(position, existingPositions) THEN <<position>>
             ELSE FirstValid(stream, existingPositions, attempts + 1)

RECURSIVE PlaceObjects(_, _, _)
PlaceObjects(draws, i, existingPositions) ==
    IF i >= NUM_OBJECTS THEN existingPositions
    ELSE LET found == FirstValid(draws[i + 1], existingPositions, 0)
             position == IF found = <<>> THEN FallbackPosition(i) ELSE found[1]
         IN  PlaceObjects(draws, i + 1, Append(existingPositions, position))

\* Game._createThrowableObjects: physicsObjects for the given random draws
CreateThrowableObjects(draws) ==
    LET positions == PlaceObjects(draws, 0, <<>>)
    IN  [i \in Bodies |-> NewPhysicsObject(positions[i])]

\* a stream of attempts that draws the same three values every time
Always(rnd) == [k \in 1..MAX_ATTEMPTS |-> rnd]

\* The random draws of the set-up: one stream of attempts per body.  In the
\* first, body 6 finds no free place in 20 attempts and is lined up on body 5.
Placements ==
    { << Always(<<500, 67, 850>>),  Always(<<500, 334, 450>>),
         Always(<<100, 0, 250>>),   Always(<<800, 200, 750>>),
         Always(<<975, 600, 500>>), Always(<<975, 600, 500>>) >> }

(* -------------------- Game.update: grab and throw --------------------- *)

\* PushHistory dropping the sample just pushed instead of the oldest
PushHistoryDropsNewest(history, p) ==
    LET pushed == Append(history, p)
    IN  IF Len(pushed) > THROW_HISTORY_LENGTH
        THEN SubSeq(pushed, 1, THROW_HISTORY_LENGTH) ELSE pushed

\* handPositionHistory.push(p), then shift() when longer than the capacity
PushHistory(history, p) ==
    LET pushed == Append(history, p)
    IN  IF Len(pushed) > THROW_HISTORY_LENGTH THEN Tail(pushed) ELSE pushed

\* raycaster.intersectObjects on one sphere mesh: <<distance>> of the nearer
\* intersection, or <<>> when the ray misses the sphere
RayIntersect(position, direction) ==
    LET oc == VSub(position, CameraPosition)
        t == VDotUnit(oc, direction)
        perpSq == VLenSq(oc) - t * t
        rSq == SPHERE_GEOMETRY_RADIUS * SPHERE_GEOMETRY_RADIUS
    IN  IF t > 0 /\ perpSq <= rSq THEN <<t - ISqrt(rSq - perpSq)>> ELSE <<>>

\* the entries of a candidate list, nearest first (Array.sort by distance;
\* entries of equal distance keep their order)
RECURSIVE SortByDistance(_)
SortByDistance(cands) ==
    IF cands = <<>> THEN <<>>
    ELSE LET k == CHOOSE a \in 1..Len(cands) :
                     \A b \in 1..Len(cands) :
                         \/ cands[a].distance < cands[b].distance
                         \/ (cands[a].distance = cands[b].distance /\ a <= b)
             rest == [m \in 1..(Len(cands) - 1) |->
                          IF m < k THEN cands[m] ELSE cands[m + 1]]
         IN  <<cands[k]>> \o SortByDistance(rest)

\* the bodies the ray hits, as candidates
RECURSIVE RayCandidates(_, _, _)
RayCandidates(objs, direction, i) ==
    IF i > NUM_OBJECTS THEN <<>>
    ELSE LET hit == RayIntersect(objs[i].position, direction)
         IN  (IF hit = <<>> THEN <<>> ELSE <<[object |-> i, distance |-> hit[1]]>>)
             \o RayCandidates(objs, direction, i + 1)

\* AddCloseObjects without the test of the distance to the hand
RECURSIVE AddCloseObjectsAnyDistance(_, _, _, _)
AddCloseObjectsAnyDistance(cands, objs, handPosition, i) ==
    IF i > NUM_OBJECTS THEN cands
    ELSE IF ~objs[i].isHeld /\ ~(\E k \in 1..Len(cands) : cands[k].object = i)
         THEN AddCloseObjectsAnyDistance(
                  Append(cands, [ object |-> i,
                                  distance |-> VDist(objs[i].position, handPosition) ]),
                  objs, handPosition, i + 1)
         ELSE AddCloseObjectsAnyDistance(cands, objs, handPosition, i + 1)

\* the loop that adds the bodies close to the hand indicator
RECURSIVE AddCloseObjects(_, _, _, _)
AddCloseObjects(cands, objs, handPosition, i) ==
    IF i > NUM_OBJECTS THEN cands
    ELSE LET distance == VDist(objs[i].position, handPosition)
             existingCandidate == \E k \in 1..Len(cands) : cands[k].object = i
         IN  IF ~objs[i].isHeld /\ distance < GRAB_THRESHOLD /\ ~existingCandidate
             THEN AddCloseObjects(Append(cands, [object |-> i, distance |-> distance]),
                                  objs, handPosition, i + 1)
             ELSE AddCloseObjects(cands, objs, handPosition, i + 1)

\* GrabCandidates left in the order the candidates were found
GrabCandidatesUnsorted(objs, screen, handPosition) ==
    AddCloseObjects(SortByDistance(RayCandidates(objs, RayDirection(screen), 1)),
                    objs, handPosition, 1)

\* GrabCandidates offering only the bodies that are highlighted
GrabCandidatesHighlighted(objs, screen, handPosition) ==
    SelectSeq(
        SortByDistance(
            AddCloseObjects(SortByDistance(RayCandidates(objs, RayDirection(screen), 1)),
                            objs, handPosition, 1)),
        LAMBDA c : objs[c.object].emissive # 0)

\* grabCandidates, sorted
GrabCandidates(objs, screen, handPosition) ==
    SortByDistance(
        AddCloseObjects(SortByDistance(RayCandidates(objs, RayDirection(screen), 1)),
                        objs, handPosition, 1))

\* the highlight feedback of Game.update: every body that is not held loses
\* its highlight; the first body the ray through the hand hits and the bodies
\* within 1.5 * GRAB_THRESHOLD of the hand indicator are highlighted
Highlight(objs, screen, handPosition) ==
    LET intersects == SortByDistance(RayCandidates(objs, RayDirection(screen), 1))
        first == IF Len(intersects) > 0 THEN intersects[1].object ELSE 0
    IN  [ i \in Bodies |->
            IF objs[i].isHeld THEN objs[i]
            ELSE [ objs[i] EXCEPT
                     !.emissive =
                         IF \/ i = first
                            \/ VDist(objs[i].position, handPosition)
                                   < Quot(GRAB_THRESHOLD * 1500, 1000)
                         THEN HIGHLIGHT_EMISSIVE ELSE 0 ] ]

\* the default throw direction, (0, 0.3, -1) normalized
DefaultThrowDirection == VNormalize(<<0, 300, -1000>>)

\* ClampForce without the upper limit
ClampForceNoUpper(f) == Max(Quot(THROW_FORCE * 700, 1000), f)

\* Math.min(THROW_FORCE * 1.5, Math.max(THROW_FORCE * 0.7, f))
ClampForce(f) ==
    Min(Quot(THROW_FORCE * 1500, 1000), Max(Quot(THROW_FORCE * 700, 1000), f))

\* AmplifiedThrowVector keeping the vertical component of the hand movement
AmplifiedThrowVectorNoFloor(throwVector) ==
    << Quot(throwVector[1] * 2500, 1000),
       throwVector[2],
       Quot(throwVector[3] * 2500, 1000) >>

\* throwVector with depth and horizontal influence increased, vertical floored
AmplifiedThrowVector(throwVector) ==
    << Quot(throwVector[1] * 2500, 1000),
       Max(200, throwVector[2]),
       Quot(throwVector[3] * 2500, 1000) >>

\* throwForce for a significant throw vector.  throwVector.normalize() works
\* in place, so throwVector.length() is read from the normalized vector.
ThrowForceFromHistory(throwDirection, historyLength, deltaTime) ==
    IF historyLength * deltaTime = 0
    THEN ClampForce(Quot(THROW_FORCE * 1500, 1000))
    ELSE ClampForce(Quot(VLen(throwDirection) * 1000 * 5, historyLength * deltaTime))

\* ThrowParameters using the history vector whatever its magnitude
ThrowParametersNoMagnitudeCheck(history, deltaTime) ==
    IF Len(history) >= 2
    THEN LET direction ==
                 VNormalize(AmplifiedThrowVector(VSub(history[Len(history)], history[1])))
         IN  [ direction |-> direction,
               force |-> ThrowForceFromHistory(direction, Len(history), deltaTime) ]
    ELSE [ direction |-> DefaultThrowDirection, force |-> THROW_FORCE ]

\* the direction and force Game.update passes to release
ThrowParameters(history, deltaTime) ==
    LET throwVector ==
            IF Len(history) >= 2 THEN VSub(history[Len(history)], history[1])
            ELSE Zero3
        significant == Len(history) >= 2 /\ VLen(throwVector) > 50
        direction ==
            IF significant THEN VNormalize(AmplifiedThrowVector(throwVector))
            ELSE DefaultThrowDirection
        force ==
            IF significant
            THEN ThrowForceFromHistory(direction, Len(history), deltaTime)
            ELSE THROW_FORCE
        \* fallback to the camera direction for a degenerate direction
        cameraDirection ==
            << CameraForward[1], Max(200, CameraForward[2] + 200), CameraForward[3] >>
    IN  [ direction |-> IF VLen(direction) < 100 THEN cameraDirection ELSE direction,
          force |-> force ]

(* ---------------------- the page and Game.onReady --------------------- *)

\* the callback the constructor of Game assigns to onReady: () => { }
NoCallback == "() => { }"

\* the callback the page assigns to game.onReady
ShowReady == "loadingMsg.textContent = MediaPipe Ready!"

\* the last paragraph of the instructions the page adds
LoadingText == "Loading MediaPipe model... (may take a moment)"

ReadyText == "MediaPipe Ready!"

\* if (this.onReady) this.onReady(): the text of the last paragraph of the
\* instructions afterwards; text is "" while the page has no instructions
InvokeOnReady(callback, text) ==
    IF callback = ShowReady /\ text # "" THEN ReadyText ELSE text

(* ------------------------------- state -------------------------------- *)

VARIABLES
    physicsObjects,       \* Game.physicsObjects: body -> PhysicsObject
    heldObject,           \* Game.heldObject: a body, or 0 for null
    handPositionHistory,  \* Game.handPositionHistory
    handIndicator,        \* Game.handIndicator: position, visible, and the
                          \* emissive and color of its sphere
    handTracker,          \* HandTracker: handData, handMovement, lastVideoTime
    videoTime,            \* videoElement.currentTime, counted in video frames
    now,                  \* performance.now(), ms
    deltaTime,            \* deltaTime of the running frame, ms
    tick,                 \* calls of Game.update started
    pc,                   \* the part of Game.update that runs next
    grabCall,             \* the body grab() was called on in this frame, or 0
    releaseCall,          \* the release() calls of this frame, with their arguments
    resolveCalls,         \* the resolveCollision calls of this frame: the pair and
                          \* the two bodies before checkCollision and after the call
    lastPairCollision,    \* pair -> the last time checkCollision returned true, or -1
    lastGrabTick,         \* the frame of the last grab() call, or 0
    historyLog,           \* for each sample of handPositionHistory: the frame
                          \* that recorded it and heldObject at that time
    onReady,              \* Game.onReady
    loadingMsg            \* the text of the last paragraph of the instructions
                          \* on the page, "" before they are added

vars == << physicsObjects, heldObject, handPositionHistory, handIndicator,
           handTracker, videoTime, now, deltaTime, tick, pc,
           grabCall, releaseCall, resolveCalls, lastPairCollision, lastGrabTick,
           historyLog, onReady, loadingMsg >>

\* the pairs of the collision loops, i < j
Pairs == { p \in Bodies \X Bodies : p[1] < p[2] }

\* new HandTracker()
NewHandTracker ==
    [ landmarks |-> NoLandmarks,
      isGrabbing |-> FALSE,
      screenPosition |-> <<500, 500>>,
      prevScreenPosition |-> <<500, 500>>,
      handMovement |-> <<0, 0>>,
      lastVideoTime |-> -1 ]

\* the state when Game.init has resolved and Game.start installs the loop
Init ==
    /\ \E draws \in Placements : physicsObjects = CreateThrowableObjects(draws)
    /\ heldObject = 0
    /\ handPositionHistory = <<>>
    /\ handIndicator = NewHandIndicator
    /\ handTracker = NewHandTracker
    /\ videoTime = 0
    /\ onReady = ShowReady
    /\ loadingMsg = LoadingText
    /\ now = StartTime
    /\ deltaTime = 0
    /\ tick = 0
    /\ pc = "sample"
    /\ grabCall = 0
    /\ releaseCall = <<>>
    /\ resolveCalls = <<>>
    /\ lastPairCollision = [p \in Pairs |-> -1]
    /\ lastGrabTick = 0
    /\ historyLog = <<>>

(* ---------------- Game.update, lines 176-285: the hand ---------------- *)

\* clock.getDelta(), handTracker.update(), the hand indicator, the history
\* and the highlight of the bodies in reach
SampleHand ==
    /\ pc = "sample"
    /\ tick < MaxTicks
    /\ \E dt \in (IF tick = 0 THEN {0} ELSE DeltaTimes),
          advance \in (IF tick = 0 THEN {0} ELSE {0, 1}),
          results \in DetectResults :
          \* a frame that is not new is not looked at
          /\ (tick > 0 /\ advance = 0) => results = NoLandmarks
          /\ LET ht == HandTrackerUpdate(handTracker, videoTime + advance, results)
                 present == ht.landmarks.n > 0
                 position == UpdateWorldPositionFromScreen(
                                 ht.screenPosition, EstimateDepth(ht.landmarks))
             IN  /\ deltaTime' = dt
                 /\ now' = now + dt
                 /\ videoTime' = videoTime + advance
                 /\ handTracker' = ht
                 /\ handIndicator' =
                        IF present
                        THEN [ handIndicator EXCEPT
                                 !.position = position,
                                 !.visible = TRUE,
                                 !.emissive = DepthColor(EstimateDepth(ht.landmarks)) ]
                        ELSE [handIndicator EXCEPT !.visible = FALSE]
                 /\ physicsObjects' =
                        IF present /\ heldObject = 0
                        THEN Highlight(physicsObjects, ht.screenPosition, position)
                        ELSE physicsObjects
                 /\ handPositionHistory' =
                        IF present THEN PushHistory(handPositionHistory, position)
                        ELSE handPositionHistory
                 /\ historyLog' =
                        IF present
                        THEN PushHistory(historyLog,
                                         [tick |-> tick + 1, held |-> heldObject])
                        ELSE historyLog
    /\ tick' = tick + 1
    /\ pc' = "interact"
    /\ grabCall' = 0
    /\ releaseCall' = <<>>
    /\ resolveCalls' = <<>>
    /\ UNCHANGED << heldObject, lastPairCollision, lastGrabTick, onReady,
                    loadingMsg >>

(* ------------- Game.update, lines 287-427: grab and throw ------------- *)

\* GrabBranch without the reset of the history
GrabBranchKeepsHistory ==
    LET cands == GrabCandidates(physicsObjects, handTracker.screenPosition,
                                handIndicator.position)
    IN  /\ IF Len(cands) > 0
           THEN /\ heldObject' = cands[1].object
                /\ physicsObjects' =
                       [physicsObjects EXCEPT ![cands[1].object] = Grab(@)]
                /\ grabCall' = cands[1].object
                /\ lastGrabTick' = tick
           ELSE UNCHANGED << heldObject, physicsObjects, grabCall, lastGrabTick >>
        /\ UNCHANGED << releaseCall, handPositionHistory, historyLog >>

\* isGrabbing and nothing held: reset the history, grab the closest candidate
GrabBranch ==
    LET cands == GrabCandidates(physicsObjects, handTracker.screenPosition,
                                handIndicator.position)
    IN  /\ handPositionHistory' = <<>>
        /\ historyLog' = <<>>
        /\ IF Len(cands) > 0
           THEN /\ heldObject' = cands[1].object
                /\ physicsObjects' =
                       [physicsObjects EXCEPT ![cands[1].object] = Grab(@)]
                /\ grabCall' = cands[1].object
                /\ lastGrabTick' = tick
           ELSE UNCHANGED << heldObject, physicsObjects, grabCall, lastGrabTick >>
        /\ UNCHANGED releaseCall

\* HoldBranch looking for a body to grab as if nothing were held
HoldBranchGrabsAgain == GrabBranch

\* isGrabbing and a body held: record the hand position when it moved
HoldBranch ==
    LET moved == /\ Len(handPositionHistory) > 0
                 /\ VDist(handPositionHistory[Len(handPositionHistory)],
                          handIndicator.position) > 10
    IN  /\ handPositionHistory' =
               IF moved
               THEN PushHistory(handPositionHistory, handIndicator.position)
               ELSE handPositionHistory
        /\ historyLog' =
               IF moved
               THEN PushHistory(historyLog, [tick |-> tick, held |-> heldObject])
               ELSE historyLog
        /\ UNCHANGED << heldObject, physicsObjects, grabCall, releaseCall,
                        lastGrabTick >>

\* not grabbing and a body held: throw it
ReleaseBranch ==
    \E rnd \in RandomTriples :
        LET throw == ThrowParameters(handPositionHistory, deltaTime)
        IN  /\ physicsObjects' =
                   [physicsObjects EXCEPT
                       ![heldObject] = Release(@, throw.direction, throw.force, rnd)]
            /\ releaseCall' =
                   Append(releaseCall,
                          [ object |-> heldObject,
                            direction |-> throw.direction,
                            force |-> throw.force,
                            history |-> handPositionHistory ])
            /\ heldObject' = 0
            /\ handPositionHistory' = <<>>
            /\ historyLog' = <<>>
            /\ UNCHANGED << grabCall, lastGrabTick >>

Interact ==
    /\ pc = "interact"
    /\ IF handTracker.isGrabbing
       THEN IF heldObject = 0 THEN GrabBranch ELSE HoldBranch
       ELSE IF heldObject # 0 THEN ReleaseBranch
            ELSE UNCHANGED << physicsObjects, heldObject, handPositionHistory, historyLog,
                              grabCall, releaseCall, lastGrabTick >>
    /\ handIndicator' =
           IF handTracker.isGrabbing
           THEN [handIndicator EXCEPT !.color = GRABBING_COLOR]
           ELSE IF handIndicator.visible
           THEN [handIndicator EXCEPT !.color = IDLE_COLOR]
           ELSE handIndicator
    /\ pc' = "integrate"
    /\ UNCHANGED << handTracker, videoTime, onReady, loadingMsg, now, deltaTime, tick,
                    resolveCalls, lastPairCollision >>

(* --------------- Game.update, lines 429-439: integration -------------- *)

\* Integrate leaving out the body thrown in this frame
IntegrateSkipsThrown ==
    /\ pc = "integrate"
    /\ physicsObjects' =
           [ i \in Bodies |->
               IF i = heldObject
               THEN Update(physicsObjects[i], deltaTime, handIndicator.position)
               ELSE IF \E k \in 1..Len(releaseCall) : releaseCall[k].object = i
               THEN physicsObjects[i]
               ELSE Update(physicsObjects[i], deltaTime, <<>>) ]
    /\ pc' = "collide"
    /\ UNCHANGED << heldObject, handPositionHistory, historyLog, handIndicator, handTracker,
                    videoTime, onReady, loadingMsg, now, deltaTime, tick, grabCall, releaseCall,
                    resolveCalls, lastPairCollision, lastGrabTick >>

Integrate ==
    /\ pc = "integrate"
    /\ physicsObjects' =
           [ i \in Bodies |->
               IF i = heldObject
               THEN Update(physicsObjects[i], deltaTime, handIndicator.position)
               ELSE Update(physicsObjects[i], deltaTime, <<>>) ]
    /\ pc' = "collide"
    /\ UNCHANGED << heldObject, handPositionHistory, historyLog, handIndicator, handTracker,
                    videoTime, onReady, loadingMsg, now, deltaTime, tick, grabCall, releaseCall,
                    resolveCalls, lastPairCollision, lastGrabTick >>

(* --------------- Game.update, lines 441-456: collisions --------------- *)

\* the pair after (i, j) in the loops
NextPair(p) == IF p[2] < NUM_OBJECTS THEN <<p[1], p[2] + 1>> ELSE <<p[1] + 1, p[1] + 2>>

\* CollidePair treating a held body like any other
CollidePairIgnoringHeld(s, p, held, time, rnd) ==
    LET objA == s.objs[p[1]]
        objB == s.objs[p[2]]
    IN  IF CheckCollisionIgnoringHeld(objA, objB, time)
        THEN LET after == ResolveCollision([objA EXCEPT !.lastCollisionTime = time],
                                           objB, rnd, rnd)
             IN  [ objs |-> [s.objs EXCEPT ![p[1]] = after[1], ![p[2]] = after[2]],
                   calls |-> Append(s.calls, [ pair |-> p,
                                               before |-> <<objA, objB>>,
                                               after |-> after ]) ]
        ELSE s

\* one iteration of the inner loop on state s = [objs, calls]
CollidePair(s, p, held, time, rnd) ==
    LET objA == s.objs[p[1]]
        objB == s.objs[p[2]]
    IN  IF p[1] = held \/ p[2] = held THEN s
        ELSE IF CheckCollision(objA, objB, time)
        THEN LET after == ResolveCollision(StampCollision(objA, objB, time), objB,
                                           rnd, rnd)
             IN  [ objs |-> [s.objs EXCEPT ![p[1]] = after[1], ![p[2]] = after[2]],
                   calls |-> Append(s.calls, [ pair |-> p,
                                               before |-> <<objA, objB>>,
                                               after |-> after ]) ]
        ELSE s

RECURSIVE CollisionPass(_, _, _, _, _)
CollisionPass(s, p, held, time, rnd) ==
    IF p[1] >= NUM_OBJECTS THEN s
    ELSE CollisionPass(CollidePair(s, p, held, time, rnd), NextPair(p), held, time, rnd)

Collide ==
    /\ pc = "collide"
    /\ \E rnd \in RandomTriples :
          LET s == CollisionPass([objs |-> physicsObjects, calls |-> <<>>],
                                 <<1, 2>>, heldObject, now, rnd)
          IN  /\ physicsObjects' = s.objs
              /\ resolveCalls' = s.calls
              /\ lastPairCollision' =
                     [p \in Pairs |->
                         IF \E k \in 1..Len(s.calls) : s.calls[k].pair = p
                         THEN now ELSE lastPairCollision[p]]
    /\ pc' = "sample"
    /\ UNCHANGED << heldObject, handPositionHistory, historyLog, handIndicator, handTracker,
                    videoTime, onReady, loadingMsg, now, deltaTime, tick, grabCall, releaseCall,
                    lastGrabTick >>

Next == SampleHand \/ Interact \/ Integrate \/ Collide

Spec == Init /\ [][Next]_vars

(* ----------------- the bootstrap: Game.init, Game.start --------------- *)

\* how handTracker.init() ends: resolved, or rejected by the model loading
\* or by the webcam
InitOutcomes == { "resolved", "modelRejected", "webcamRejected" }

\* the state after new Game(renderDiv)
BootInit ==
    /\ physicsObjects = <<>>
    /\ heldObject = 0
    /\ handPositionHistory = <<>>
    /\ handIndicator = NewHandIndicator
    /\ handTracker = NewHandTracker
    /\ videoTime = 0
    /\ onReady = NoCallback
    /\ loadingMsg = ""
    /\ now = StartTime
    /\ deltaTime = 0
    /\ tick = 0
    /\ pc = "init"
    /\ grabCall = 0
    /\ releaseCall = <<>>
    /\ resolveCalls = <<>>
    /\ lastPairCollision = [p \in Pairs |-> -1]
    /\ lastGrabTick = 0
    /\ historyLog = <<>>

\* GameInit creating the bodies before it awaits the hand tracker
GameInitCreatesBodiesFirst ==
    /\ pc = "init"
    /\ \E outcome \in InitOutcomes, draws \in Placements :
          /\ physicsObjects' = CreateThrowableObjects(draws)
          /\ pc' = IF outcome = "resolved" THEN "ready" ELSE "failed"
          /\ loadingMsg' = IF outcome = "resolved"
                           THEN InvokeOnReady(onReady, loadingMsg)
                           ELSE loadingMsg
    /\ UNCHANGED << heldObject, handPositionHistory, historyLog, handIndicator,
                    handTracker, videoTime, onReady, now, deltaTime, tick,
                    grabCall, releaseCall, resolveCalls, lastPairCollision,
                    lastGrabTick >>

\* Game.init: await handTracker.init(), then create the bodies and call
\* onReady
GameInit ==
    /\ pc = "init"
    /\ \E outcome \in InitOutcomes :
          IF outcome = "resolved"
          THEN /\ \E draws \in Placements :
                     physicsObjects' = CreateThrowableObjects(draws)
               /\ loadingMsg' = InvokeOnReady(onReady, loadingMsg)
               /\ pc' = "ready"
          ELSE /\ pc' = "failed"
               /\ UNCHANGED << physicsObjects, loadingMsg >>
    /\ UNCHANGED << heldObject, handPositionHistory, historyLog, handIndicator,
                    handTracker, videoTime, onReady, now, deltaTime, tick,
                    grabCall, releaseCall, resolveCalls, lastPairCollision,
                    lastGrabTick >>

\* game.init().then(...): game.start() installs the animation loop, the
\* instructions are added to the page and game.onReady is assigned
GameStart ==
    /\ pc = "ready"
    /\ pc' = "sample"
    /\ loadingMsg' = LoadingText
    /\ onReady' = ShowReady
    /\ UNCHANGED << physicsObjects, heldObject, handPositionHistory, historyLog,
                    handIndicator, handTracker, videoTime, now, deltaTime, tick,
                    grabCall, releaseCall, resolveCalls, lastPairCollision,
                    lastGrabTick >>

BootNext == GameInit \/ GameStart \/ Next

BootSpec == BootInit /\ [][BootNext]_vars

(* -------------------- HandTracker.update on its own ------------------- *)

\* thumb tips around an index tip at (0.5, 0.5, 0): pinch distances 0.02,
\* 0.069, 0.07, 0.071, 0.06 in depth only, 0.078 (0.05 across, 0.06 in depth),
\* 0.0693 (0.04 along each axis) and 0.1
ThumbTips ==
    { <<520, 500, 0>>, <<569, 500, 0>>, <<570, 500, 0>>, <<571, 500, 0>>,
      <<500, 500, 60>>, <<550, 500, 60>>, <<540, 540, 40>>, <<600, 500, 0>> }

\* spreads of the palm landmarks: average pair distance twice the step
PalmSteps == { 10, 25, 60, 100, 150, 200 }

\* what detectForVideo returns when HandTracker.update is exercised alone
SensorResults ==
    { Hand(t, <<500, 500, 0>>, <<100, 700>>, s) : t \in ThumbTips, s \in PalmSteps }
        \cup { Hand(<<500, 500, 0>>, <<520, 500, 0>>, <<100, 700>>, 60), NoLandmarks }

\* a landmark list of fewer than 5 entries
ShortLandmarks == [ NoLandmarks EXCEPT !.n = 3 ]

\* a tracker just constructed, or one whose handData holds a short list
SensorInit ==
    /\ handTracker \in { NewHandTracker,
                          [NewHandTracker EXCEPT !.landmarks = ShortLandmarks] }
    /\ \E draws \in Placements : physicsObjects = CreateThrowableObjects(draws)
    /\ heldObject = 0
    /\ handPositionHistory = <<>>
    /\ handIndicator = NewHandIndicator
    /\ videoTime = 0
    /\ onReady = ShowReady
    /\ loadingMsg = LoadingText
    /\ now = StartTime
    /\ deltaTime = 0
    /\ tick = 0
    /\ pc = "sample"
    /\ grabCall = 0
    /\ releaseCall = <<>>
    /\ resolveCalls = <<>>
    /\ lastPairCollision = [p \in Pairs |-> -1]
    /\ lastGrabTick = 0
    /\ historyLog = <<>>

\* one call of HandTracker.update, on a new video frame or on the same one
SensorUpdate ==
    /\ tick < MaxTicks
    /\ \E advance \in {0, 1}, results \in SensorResults :
          /\ handTracker' = HandTrackerUpdate(handTracker, videoTime + advance, results)
          /\ videoTime' = videoTime + advance
    /\ tick' = tick + 1
    /\ UNCHANGED << physicsObjects, heldObject, handPositionHistory, historyLog, handIndicator,
                    now, deltaTime, pc, grabCall, releaseCall, resolveCalls,
                    lastPairCollision, lastGrabTick, onReady, loadingMsg >>

SensorSpec == SensorInit /\ [][SensorUpdate]_vars

(* ------------- frames that start with a history recorded -------------- *)

\* hand positions recorded by earlier frames, oldest first
HistorySamples ==
    << <<-40, 596, 256>>, <<-30, 596, 256>>, <<-20, 596, 256>>,
       <<-10, 596, 256>>, <<0, 596, 256>> >>

\* the state between two frames after the hand was seen for a while: up to
\* five samples recorded, body 1 held by a pinching hand or nothing held and
\* the hand open; two more frames are run from here
HistoryInit ==
    /\ \E draws \in Placements, n \in 0..Len(HistorySamples), held \in {0, 1} :
          /\ physicsObjects =
                 [ CreateThrowableObjects(draws) EXCEPT
                     ![1] = IF held = 1
                            THEN [ Grab(@) EXCEPT !.position = HistorySamples[5] ]
                            ELSE @ ]
          /\ heldObject = held
          /\ handPositionHistory = SubSeq(HistorySamples, 1, n)
          /\ handTracker =
                 ProcessFrame([NewHandTracker EXCEPT !.lastVideoTime = 1],
                              IF held = 1 THEN PinchNear ELSE OpenNear)
    /\ handIndicator =
           [ position |-> HistorySamples[5], visible |-> TRUE,
             emissive |-> DepthColor(EstimateDepth(handTracker.landmarks)),
             color |-> IF heldObject = 1 THEN GRABBING_COLOR ELSE IDLE_COLOR ]
    /\ videoTime = 1
    /\ onReady = ShowReady
    /\ loadingMsg = LoadingText
    /\ now = StartTime + 100
    /\ deltaTime = 16
    /\ tick = MaxTicks - 2
    /\ pc = "sample"
    /\ grabCall = 0
    /\ releaseCall = <<>>
    /\ resolveCalls = <<>>
    /\ lastPairCollision = [p \in Pairs |-> -1]
    /\ lastGrabTick = 0
    /\ historyLog =
           [ k \in 1..Len(handPositionHistory) |->
               [ tick |-> tick - Len(handPositionHistory) + k,
                 held |-> heldObject ] ]

HistorySpec == HistoryInit /\ [][Next]_vars

(* --------------- frames that start with bodies in reach --------------- *)

\* places of body 2: where it was set up, beside the hand of PinchNear,
\* on the camera ray through the middle of the image in front of body 1
GrabPlaces2 == { <<0, 1001, -1100>>, <<300, 700, 0>>, <<0, 838, 900>> }

\* places of body 4: where it was set up, 0.5 and 0.9 beside that hand
GrabPlaces4 == { <<1200, 800, -500>>, <<-500, 596, 256>>, <<0, 1100, 1000>> }

\* the state between two frames with bodies 2 and 4 at rest in those places
\* and no hand seen so far; two more frames are run from here
GrabInit ==
    /\ \E draws \in Placements, p2 \in GrabPlaces2, p4 \in GrabPlaces4 :
          physicsObjects =
              [ CreateThrowableObjects(draws) EXCEPT
                  ![2] = NewPhysicsObject(p2), ![4] = NewPhysicsObject(p4) ]
    /\ heldObject = 0
    /\ handPositionHistory = <<>>
    /\ handIndicator = NewHandIndicator
    /\ handTracker = [NewHandTracker EXCEPT !.lastVideoTime = 1]
    /\ videoTime = 1
    /\ onReady = ShowReady
    /\ loadingMsg = LoadingText
    /\ now = StartTime + 100
    /\ deltaTime = 16
    /\ tick = MaxTicks - 2
    /\ pc = "sample"
    /\ grabCall = 0
    /\ releaseCall = <<>>
    /\ resolveCalls = <<>>
    /\ lastPairCollision = [p \in Pairs |-> -1]
    /\ lastGrabTick = 0
    /\ historyLog = <<>>

GrabSpec == GrabInit /\ [][Next]_vars

(* ---------- the collision pass on two bodies in given states ---------- *)

\* where the second body lies, seen from the first
PairOffsets ==
    { <<400, 0, 0>>, <<0, 0, 0>>, <<300, -300, 100>>, <<0, 499, 0>>,
      <<0, 500, 0>>, <<-100, -200, 200>>, <<600, 0, 0>>, <<1, 0, 0>> }

PairVelocitiesA == { Zero3, <<1000, 0, 0>>, <<-2000, 500, 0>> }

PairVelocitiesB == { Zero3, <<0, 3000, 0>>, <<-2000, 500, 0>> }

\* how long before the pass the first body last collided, ms
PairAges == { 99, 100, 2000 }

PairTime == StartTime + 1000

\* the state before a collision pass: bodies 1 and 2 as drawn, the others
\* apart from them and from each other, nothing held or body 2 held (at rest)
PairInit ==
    /\ \E offset \in PairOffsets, vA \in PairVelocitiesA, vB \in PairVelocitiesB,
          age \in PairAges, held \in {0, 2} :
          /\ held = 2 => vB = Zero3
          /\ physicsObjects =
                 [ i \in Bodies |->
                     IF i = 1
                     THEN [ NewPhysicsObject(<<0, 1000, 0>>) EXCEPT
                              !.velocity = vA, !.lastCollisionTime = PairTime - age ]
                     ELSE IF i = 2
                     THEN [ NewPhysicsObject(VAdd(<<0, 1000, 0>>, offset)) EXCEPT
                              !.velocity = vB, !.isHeld = (held = 2),
                              !.emissive = IF held = 2 THEN GRAB_EMISSIVE ELSE 0 ]
                     ELSE NewPhysicsObject(<<i * 1000, 1000, -1000>>) ]
          /\ heldObject = held
    /\ handPositionHistory = <<>>
    /\ handIndicator = NewHandIndicator
    /\ handTracker = NewHandTracker
    /\ videoTime = 0
    /\ onReady = ShowReady
    /\ loadingMsg = LoadingText
    /\ now = PairTime
    /\ deltaTime = 16
    /\ tick = 1
    /\ pc = "collide"
    /\ grabCall = 0
    /\ releaseCall = <<>>
    /\ resolveCalls = <<>>
    /\ lastPairCollision = [p \in Pairs |-> -1]
    /\ lastGrabTick = 0
    /\ historyLog = <<>>

PairSpec == PairInit /\ [][Collide]_vars

(* ------------- PhysicsObject.checkCollision on given bodies ------------ *)

\* the state before objA.checkCollision(objB) for bodies 1 and 2 as drawn:
\* none or one of them held, the second one never in a collision or in one
\* 50 ms before the call
CheckInit ==
    /\ \E offset \in PairOffsets, age \in PairAges, held \in {0, 1, 2},
          otherTime \in {0, PairTime - 50} :
          /\ physicsObjects =
                 [ i \in Bodies |->
                     IF i = 1
                     THEN [ NewPhysicsObject(<<0, 1000, 0>>) EXCEPT
                              !.isHeld = (held = 1),
                              !.emissive = IF held = 1 THEN GRAB_EMISSIVE ELSE 0,
                              !.lastCollisionTime = PairTime - age ]
                     ELSE IF i = 2
                     THEN [ NewPhysicsObject(VAdd(<<0, 1000, 0>>, offset)) EXCEPT
                              !.isHeld = (held = 2),
                              !.emissive = IF held = 2 THEN GRAB_EMISSIVE ELSE 0,
                              !.lastCollisionTime = otherTime ]
                     ELSE NewPhysicsObject(<<i * 1000, 1000, -1000>>) ]
          /\ heldObject = held
    /\ handPositionHistory = <<>>
    /\ handIndicator = NewHandIndicator
    /\ handTracker = NewHandTracker
    /\ videoTime = 0
    /\ onReady = ShowReady
    /\ loadingMsg = LoadingText
    /\ now = PairTime
    /\ deltaTime = 16
    /\ tick = 1
    /\ pc = "check"
    /\ grabCall = 0
    /\ releaseCall = <<>>
    /\ resolveCalls = <<>>
    /\ lastPairCollision = [p \in Pairs |-> -1]
    /\ lastGrabTick = 0
    /\ historyLog = <<>>

\* if (objA.checkCollision(objB)) for bodies 1 and 2: control goes into the
\* body of the if ("resolve") when the call returns true, past it otherwise
CheckCollisionCall ==
    /\ pc = "check"
    /\ physicsObjects' =
           [ physicsObjects EXCEPT
               ![1] = StampCollision(physicsObjects[1], physicsObjects[2], now) ]
    /\ pc' = IF CheckCollision(physicsObjects[1], physicsObjects[2], now)
             THEN "resolve" ELSE "skip"
    /\ UNCHANGED << heldObject, handPositionHistory, historyLog, handIndicator, handTracker,
                    videoTime, onReady, loadingMsg, now, deltaTime, tick, grabCall, releaseCall,
                    resolveCalls, lastPairCollision, lastGrabTick >>

CheckSpec == CheckInit /\ [][CheckCollisionCall]_vars

(* ------------- PhysicsObject.update on a body in given states ---------- *)

\* where body 1 is: in mid-air, next to the wall x = 10, in the corner of
\* the walls x = -10 and z = -10 just above the ground, on the ground,
\* exactly on the bounds of x and z, next to the wall z = -10
FlightPositions ==
    { <<0, 1000, 0>>, <<9740, 2000, 0>>, <<-9745, 260, -9745>>, <<0, 252, 0>>,
      <<9750, 1000, 9750>>, <<0, 3000, -9700>> }

FlightVelocities ==
    { Zero3, <<2000, 0, 0>>, <<-3000, -1000, -3000>>, <<0, -2000, 0>>,
      <<500, 1000, -4000>>, <<0, 0, 5000>> }

FlightSpins == { Zero3, <<1000, -2000, 500>>, <<0, 0, 6000>> }

\* the state before the integration step of a frame: body 1 as drawn, the
\* others where they were set up, nothing held
FlightInit ==
    /\ \E draws \in Placements, position \in FlightPositions,
          velocity \in FlightVelocities, spin \in FlightSpins :
          physicsObjects =
              [ CreateThrowableObjects(draws) EXCEPT
                  ![1] = [ NewPhysicsObject(position) EXCEPT
                             !.velocity = velocity, !.angularVelocity = spin ] ]
    /\ deltaTime \in DeltaTimes
    /\ heldObject = 0
    /\ handPositionHistory = <<>>
    /\ handIndicator = NewHandIndicator
    /\ handTracker = NewHandTracker
    /\ videoTime = 0
    /\ onReady = ShowReady
    /\ loadingMsg = LoadingText
    /\ now = PairTime
    /\ tick = 1
    /\ pc = "integrate"
    /\ grabCall = 0
    /\ releaseCall = <<>>
    /\ resolveCalls = <<>>
    /\ lastPairCollision = [p \in Pairs |-> -1]
    /\ lastGrabTick = 0
    /\ historyLog = <<>>

FlightSpec == FlightInit /\ [][Integrate]_vars

(* --------------- PhysicsObject.release on a body in given states ------- *)

\* the state before release(direction, force) is called on body 1, which is
\* in one of the places drawn, held and at rest or free with one of the
\* velocities drawn
ReleaseInit ==
    /\ \E draws \in Placements, position \in FlightPositions,
          velocity \in FlightVelocities, held \in {0, 1} :
          /\ held = 1 => velocity = Zero3
          /\ physicsObjects =
                 [ CreateThrowableObjects(draws) EXCEPT
                     ![1] = [ NewPhysicsObject(position) EXCEPT
                                !.velocity = velocity, !.isHeld = (held = 1),
                                !.emissive = IF held = 1 THEN GRAB_EMISSIVE ELSE 0 ] ]
          /\ heldObject = held
    /\ handPositionHistory = <<>>
    /\ handIndicator = NewHandIndicator
    /\ handTracker = NewHandTracker
    /\ videoTime = 0
    /\ onReady = ShowReady
    /\ loadingMsg = LoadingText
    /\ now = PairTime
    /\ deltaTime = 16
    /\ tick = 1
    /\ pc = "release"
    /\ grabCall = 0
    /\ releaseCall = <<>>
    /\ resolveCalls = <<>>
    /\ lastPairCollision = [p \in Pairs |-> -1]
    /\ lastGrabTick = 0
    /\ historyLog = <<>>

\* body 1 .release(direction, force) with a direction of length 0, 1 or 5
\* and a force within the clamp of the throw
ReleaseCall ==
    /\ pc = "release"
    /\ \E direction \in { Zero3, <<0, 287, -958>>, <<3000, 4000, 0>> },
          force \in { 5000, THROW_FORCE, 30000 }, rnd \in RandomTriples :
          /\ physicsObjects' =
                 [ physicsObjects EXCEPT ![1] = Release(@, direction, force, rnd) ]
          /\ releaseCall' =
                 Append(releaseCall,
                        [ object |-> 1, direction |-> direction, force |-> force,
                          history |-> handPositionHistory ])
    /\ pc' = "released"
    /\ UNCHANGED << heldObject, handPositionHistory, historyLog, handIndicator, handTracker,
                    videoTime, onReady, loadingMsg, now, deltaTime, tick, grabCall, resolveCalls,
                    lastPairCollision, lastGrabTick >>

ReleaseSpec == ReleaseInit /\ [][ReleaseCall]_vars

(* ------------------------------ properties ---------------------------- *)

\* the pairs resolveCollision was called for in this frame
ResolvedPairs == { resolveCalls[k].pair : k \in 1..Len(resolveCalls) }

Overlapping(p) ==
    VCloser(physicsObjects[p[1]].position, physicsObjects[p[2]].position,
            BALL_RADIUS + BALL_RADIUS)

\* C1: in every state (so at every tick boundary), a body that is held has
\* zero velocity and zero angular velocity.
C1_HeldBodyAtRest ==
    \A i \in Bodies :
        physicsObjects[i].isHeld =>
            /\ physicsObjects[i].velocity = Zero3
            /\ physicsObjects[i].angularVelocity = Zero3

\* a frame ends with a body held while two other bodies collided in that frame
C1_Witness ==
    /\ pc = "sample" /\ tick >= 1
    /\ heldObject # 0 /\ physicsObjects[heldObject].isHeld
    /\ resolveCalls # <<>>

\* C2: a new video frame without landmarks makes isGrabbing false and adds no
\* sample to the history; with a body held and no hand, the interaction step
\* of that frame releases that body with the history as it was and leaves
\* nothing held; with nothing held and no hand it releases nothing.
C2_AbsentHandReleases ==
    [][ /\ ( /\ pc = "sample"
             /\ handTracker'.lastVideoTime # handTracker.lastVideoTime
             /\ handTracker'.landmarks.n = 0 )
           => ( /\ ~handTracker'.isGrabbing
                /\ handPositionHistory' = handPositionHistory )
        /\ (pc = "interact" /\ handTracker.landmarks.n = 0 /\ heldObject # 0)
           => ( /\ heldObject' = 0
                /\ Len(releaseCall') = 1
                /\ releaseCall'[1].object = heldObject
                /\ releaseCall'[1].history = handPositionHistory
                /\ ~physicsObjects'[heldObject].isHeld )
        /\ (pc = "interact" /\ handTracker.landmarks.n = 0 /\ heldObject = 0)
           => (heldObject' = 0 /\ releaseCall' = <<>>)
      ]_vars

\* the hand vanished while a body was held: the body was thrown with the one
\* sample recorded before
C2_Witness ==
    /\ pc = "integrate"
    /\ handTracker.landmarks.n = 0
    /\ Len(releaseCall) = 1 /\ Len(releaseCall[1].history) = 1
    /\ heldObject = 0

\* C3 as stated: after the integration step every body, held or not, is at
\* or above GROUND_Y + radius.
C3_AboveGround ==
    pc = "collide" =>
        \A i \in Bodies : physicsObjects[i].position[2] >= GROUND_Y + BALL_RADIUS

ShortThrow(history) ==
    \/ Len(history) < 2
    \/ VLen(VSub(history[Len(history)], history[1])) <= 50

\* C4: a release with fewer than 2 samples, or with |last - first| <= 0.05, is
\* given the direction (0, 0.3, -1) normalized and the force 15; so is every
\* release in the frame after the grab.
C4_DefaultThrow ==
    \A k \in 1..Len(releaseCall) :
        (ShortThrow(releaseCall[k].history) \/ lastGrabTick = tick - 1) =>
            /\ releaseCall[k].direction = <<0, 287, -957>>
            /\ releaseCall[k].force = 15000

\* a release with two samples that lie in the same place
C4_Witness ==
    /\ Len(releaseCall) = 1
    /\ Len(releaseCall[1].history) >= 2
    /\ ShortThrow(releaseCall[1].history)

\* C5 as stated: with at least 2 samples and |last - first| > 0.05 the force is
\* |last - first| / (historyLength * dt) clamped to [10.5, 22.5].
C5_ForceIsHandSpeed ==
    \A k \in 1..Len(releaseCall) :
        LET h == releaseCall[k].history
        IN  ~ShortThrow(h) =>
                releaseCall[k].force =
                    Min(22500, Max(10500,
                        Quot(VLen(VSub(h[Len(h)], h[1])) * 1000, Len(h) * deltaTime)))

\* C6: every release is given a force within [10.5, 22.5].
C6_ForceClamped ==
    \A k \in 1..Len(releaseCall) :
        releaseCall[k].force >= 10500 /\ releaseCall[k].force <= 22500

\* a throw from the history whose force lies strictly inside the range
C6_Witness ==
    /\ Len(releaseCall) = 1
    /\ ~ShortThrow(releaseCall[1].history)
    /\ releaseCall[1].force > 10500 /\ releaseCall[1].force < 22500

\* C7: resolveCollision is called for a pair only if checkCollision has not
\* returned true for that pair in the 100 ms before.
C7_Debounce ==
    [][ pc = "collide" =>
            \A k \in 1..Len(resolveCalls') :
                LET p == resolveCalls'[k].pair
                IN  lastPairCollision[p] = -1 \/ now - lastPairCollision[p] >= 100
      ]_vars

\* a frame less than 100 ms after a pair collided, in which the two bodies
\* overlap and resolveCollision was not called for them
C7_Witness ==
    /\ pc = "sample"
    /\ \E p \in Pairs :
          /\ lastPairCollision[p] >= 0
          /\ now > lastPairCollision[p] /\ now - lastPairCollision[p] < 100
          /\ Overlapping(p)
          /\ ~physicsObjects[p[1]].isHeld /\ ~physicsObjects[p[2]].isHeld
          /\ p \notin ResolvedPairs

DistSq(pair) == VLenSq(VSub(pair[1].position, pair[2].position))

\* C8: when two bodies that are not held are closer than the sum of their
\* radii and the first has no collision in the last 100 ms, the pass calls
\* resolveCollision for them (checkCollision returned true), and the centres
\* are at least as far apart after the call as before.
C8_CollisionSeparates ==
    [][ ( /\ pc = "collide"
          /\ heldObject \notin {1, 2}
          /\ ~physicsObjects[1].isHeld /\ ~physicsObjects[2].isHeld
          /\ VLenSq(VSub(physicsObjects[1].position, physicsObjects[2].position))
                 < 500 * 500
          /\ now - physicsObjects[1].lastCollisionTime >= 100 )
        => \E k \in 1..Len(resolveCalls') :
               /\ resolveCalls'[k].pair = <<1, 2>>
               /\ resolveCalls'[k].before = <<physicsObjects[1], physicsObjects[2]>>
               /\ DistSq(resolveCalls'[k].after) >= DistSq(resolveCalls'[k].before)
      ]_vars

\* two bodies 0.4 apart have been pushed apart
C8_Witness ==
    /\ pc = "sample"
    /\ \E k \in 1..Len(resolveCalls) :
          /\ resolveCalls[k].pair = <<1, 2>>
          /\ DistSq(resolveCalls[k].before) = 400 * 400
          /\ DistSq(resolveCalls[k].after) > DistSq(resolveCalls[k].before)

\* the bodies the camera ray through the hand hits, and the free bodies
\* within 1.2 of the hand indicator
CandidateSet ==
    { i \in Bodies :
        \/ RayIntersect(physicsObjects[i].position,
                        RayDirection(handTracker.screenPosition)) # <<>>
        \/ ( /\ ~physicsObjects[i].isHeld
             /\ VLenSq(VSub(physicsObjects[i].position, handIndicator.position))
                    < 1200 * 1200 ) }

\* C9: the interaction step calls grab() and sets heldObject exactly when
\* isGrabbing is true, nothing is held and there is a candidate; with
\* isGrabbing true and no candidate, heldObject stays null and no body's
\* isHeld, velocity or position changes.
C9_GrabIffCandidate ==
    [][ pc = "interact" =>
          /\ (grabCall' # 0) <=>
                 (handTracker.isGrabbing /\ heldObject = 0 /\ CandidateSet # {})
          /\ (heldObject = 0 /\ heldObject' # 0) <=> (grabCall' # 0)
          /\ grabCall' # 0 =>
                 (heldObject' = grabCall' /\ physicsObjects'[grabCall'].isHeld)
          /\ (handTracker.isGrabbing /\ heldObject = 0 /\ CandidateSet = {}) =>
                 /\ heldObject' = 0
                 /\ \A i \in Bodies :
                       /\ physicsObjects'[i].isHeld = physicsObjects[i].isHeld
                       /\ physicsObjects'[i].velocity = physicsObjects[i].velocity
                       /\ physicsObjects'[i].position = physicsObjects[i].position
      ]_vars

\* a pinch with nothing in reach: the interaction step ran and nothing is held
C9_Witness ==
    /\ pc = "integrate"
    /\ handTracker.isGrabbing
    /\ heldObject = 0 /\ grabCall = 0
    /\ CandidateSet = {}

\* C11: handPositionHistory never holds more than 5 samples, and a sample
\* appended to a history of 5 removes the oldest one and keeps the order of
\* the others.
C11_HistoryBounded ==
    [][ /\ Len(handPositionHistory) <= 5
        /\ Len(handPositionHistory') <= 5
        /\ ( pc = "sample" /\ handTracker'.landmarks.n > 0
                /\ Len(handPositionHistory) = 5 )
             => handPositionHistory' =
                    Tail(handPositionHistory) \o <<handIndicator'.position>>
      ]_vars

\* a sixth sample was pushed: the second of the recorded ones is now the oldest
C11_Witness ==
    /\ pc = "interact"
    /\ Len(handPositionHistory) = 5
    /\ handPositionHistory[1] = <<-30, 596, 256>>
    /\ handPositionHistory[5] = handIndicator.position

\* C12: with a hand detected, isGrabbing is true exactly when the 3D distance
\* between thumb tip and index tip is below 0.07; a distance of exactly 0.07
\* gives false; thumb (0.50, 0.50, 0) with index (0.52, 0.50, 0) gives true.
C12_PinchThreshold ==
    LET thumb == handTracker.landmarks.thumb
        index == handTracker.landmarks.index
        dSq == (thumb[1] - index[1]) * (thumb[1] - index[1])
                 + (thumb[2] - index[2]) * (thumb[2] - index[2])
                 + (thumb[3] - index[3]) * (thumb[3] - index[3])
    IN  handTracker.landmarks.n = 21 =>
            /\ handTracker.isGrabbing <=> (dSq < 70 * 70)
            /\ dSq = 70 * 70 => ~handTracker.isGrabbing
            /\ (thumb = <<500, 500, 0>> /\ index = <<520, 500, 0>>)
                   => handTracker.isGrabbing

\* a hand whose thumb and index tips are exactly 0.07 apart was processed
C12_Witness ==
    /\ handTracker.landmarks.n = 21
    /\ handTracker.landmarks.thumb = <<570, 500, 0>>
    /\ handTracker.landmarks.index = <<500, 500, 0>>
    /\ ~handTracker.isGrabbing
    /\ handTracker.lastVideoTime = videoTime /\ videoTime > 0

\* the mean of the 10 distances between the wrist and the finger bases
AvgSize(landmarks) ==
    ( ISqrt(VLenSq(<<landmarks.palm[1][1] - landmarks.palm[2][1], landmarks.palm[1][2] - landmarks.palm[2][2], 0>>))
    + ISqrt(VLenSq(<<landmarks.palm[1][1] - landmarks.palm[3][1], landmarks.palm[1][2] - landmarks.palm[3][2], 0>>))
    + ISqrt(VLenSq(<<landmarks.palm[1][1] - landmarks.palm[4][1], landmarks.palm[1][2] - landmarks.palm[4][2], 0>>))
    + ISqrt(VLenSq(<<landmarks.palm[1][1] - landmarks.palm[5][1], landmarks.palm[1][2] - landmarks.palm[5][2], 0>>))
    + ISqrt(VLenSq(<<landmarks.palm[2][1] - landmarks.palm[3][1], landmarks.palm[2][2] - landmarks.palm[3][2], 0>>))
    + ISqrt(VLenSq(<<landmarks.palm[2][1] - landmarks.palm[4][1], landmarks.palm[2][2] - landmarks.palm[4][2], 0>>))
    + ISqrt(VLenSq(<<landmarks.palm[2][1] - landmarks.palm[5][1], landmarks.palm[2][2] - landmarks.palm[5][2], 0>>))
    + ISqrt(VLenSq(<<landmarks.palm[3][1] - landmarks.palm[4][1], landmarks.palm[3][2] - landmarks.palm[4][2], 0>>))
    + ISqrt(VLenSq(<<landmarks.palm[3][1] - landmarks.palm[5][1], landmarks.palm[3][2] - landmarks.palm[5][2], 0>>))
    + ISqrt(VLenSq(<<landmarks.palm[4][1] - landmarks.palm[5][1], landmarks.palm[4][2] - landmarks.palm[5][2], 0>>))
    ) \div 10

\* C13: estimateDepth is 1 - clamp((avgSize - 0.05) / 0.25, 0, 1): within
\* [0, 1], 1 for avgSize <= 0.05, 0 for avgSize >= 0.30, never smaller for a
\* smaller avgSize; 0.5 without landmarks or with fewer than 5 of them.
C13_DepthFromHandSize ==
    LET landmarks == handTracker.landmarks
        depth == EstimateDepth(landmarks)
        avgSize == AvgSize(landmarks)
        ratio == Quot((avgSize - 50) * 1000, 250)
        clamped == IF ratio < 0 THEN 0 ELSE IF ratio > 1000 THEN 1000 ELSE ratio
    IN  /\ landmarks.n < 5 => depth = 500
        /\ landmarks.n >= 5 =>
               /\ depth = 1000 - clamped
               /\ depth >= 0 /\ depth <= 1000
               /\ avgSize <= 50 => depth = 1000
               /\ avgSize >= 300 => depth = 0
               /\ \A other \in SensorResults :
                     (other.n >= 5 /\ AvgSize(other) <= avgSize)
                         => EstimateDepth(other) >= depth

\* a hand of average size 0.12 was processed: its depth is 0.72
C13_Witness ==
    /\ handTracker.landmarks.n = 21
    /\ handTracker.lastVideoTime = videoTime /\ videoTime > 0
    /\ AvgSize(handTracker.landmarks) = 120
    /\ EstimateDepth(handTracker.landmarks) = 720

\* C14: when the hand tracker's initialisation is rejected, Game.init is
\* rejected before any body is created, and nothing runs afterwards: start is
\* not called and no frame of Game.update is executed.
C14_NoRunWithoutTracker ==
    [][ /\ pc # "failed"
        /\ pc' = "failed" =>
               (pc = "init" /\ physicsObjects' = <<>> /\ tick' = 0)
      ]_vars

\* the initialisation was rejected
C14_Witness ==
    /\ pc = "failed"
    /\ physicsObjects = <<>>
    /\ tick = 0

\* C15 as stated: when the loop starts, every two of the 6 bodies have their
\* centres at least 0.5 (the sum of the radii) apart.
C15_NoOverlapAtSetup ==
    (tick = 0 /\ pc = "sample") =>
        \A p \in Pairs :
            VLenSq(VSub(physicsObjects[p[1]].position, physicsObjects[p[2]].position))
                >= 500 * 500

\* C16: a call of HandTracker.update with the video time of the last
\* processed frame leaves handData and handMovement as they were; the frame
\* still runs to its end, and its integration step updates every body that is
\* not held.
C16_StaleFrameIgnored ==
    [][ ( (pc = "sample" /\ videoTime' = handTracker.lastVideoTime)
             => (handTracker' = handTracker /\ pc' = "interact") )
        /\
        ( pc = "interact" => pc' = "integrate" )
        /\
        ( pc = "integrate" =>
             ( /\ pc' = "collide"
               /\ \A i \in Bodies :
                     (i # heldObject /\ ~physicsObjects[i].isHeld) =>
                         physicsObjects'[i] =
                             UpdateFree(physicsObjects[i], deltaTime) ) )
        /\
        ( pc = "collide" => pc' = "sample" )
      ]_vars

\* the second frame saw the video frame of the first again, kept the hand of
\* the first, and has been integrated
C16_Witness ==
    /\ pc = "collide"
    /\ tick = 2 /\ videoTime = 0
    /\ handTracker.lastVideoTime = 0
    /\ handTracker.landmarks.n = 21
    /\ \E i \in Bodies : ~physicsObjects[i].isHeld /\ physicsObjects[i].velocity # Zero3

\* C17 as stated: while a body is held and isGrabbing stays true, a frame in
\* which the hand's world position is within 0.01 of the last sample of the
\* history appends no sample.
C17_JitterSuppressed ==
    [][ ( /\ pc = "sample"
          /\ heldObject # 0
          /\ handTracker.isGrabbing /\ handTracker'.isGrabbing
          /\ Len(handPositionHistory) > 0
          /\ VLenSq(VSub(handIndicator'.position,
                         handPositionHistory[Len(handPositionHistory)])) <= 10 * 10 )
        => handPositionHistory' = handPositionHistory
      ]_vars

\* the distance recorded for a candidate: along the camera ray for a body the
\* ray hits, to the hand indicator for the others
RecordedDistance(i) ==
    LET hit == RayIntersect(physicsObjects[i].position,
                            RayDirection(handTracker.screenPosition))
    IN  IF hit # <<>> THEN hit[1]
        ELSE VLen(VSub(physicsObjects[i].position, handIndicator.position))

\* C18: the body grabbed is a candidate (hit by the camera ray, or free and
\* within 1.2 of the hand), and no candidate has a smaller recorded distance,
\* each body being recorded once; a body that is no candidate is not grabbed.
C18_ClosestCandidateGrabbed ==
    [][ (pc = "interact" /\ grabCall' # 0) =>
            /\ grabCall' \in CandidateSet
            /\ \A j \in CandidateSet :
                   RecordedDistance(grabCall') <= RecordedDistance(j)
      ]_vars

\* a grab with a second body in reach of the hand
C18_Witness ==
    /\ pc = "integrate"
    /\ grabCall # 0 /\ heldObject = grabCall
    /\ \E j \in Bodies \ {grabCall} :
          \/ RayIntersect(physicsObjects[j].position,
                          RayDirection(handTracker.screenPosition)) # <<>>
          \/ VLenSq(VSub(physicsObjects[j].position, handIndicator.position))
                 < 1200 * 1200

\* C19: the direction given to every release() has a positive y component
\* and is not the zero vector, and the body released has velocity.y > 0 when
\* release() returns.
C19_ThrowGoesUp ==
    \A k \in 1..Len(releaseCall) :
        /\ releaseCall[k].direction[2] > 0
        /\ releaseCall[k].direction # <<0, 0, 0>>
        /\ pc = "integrate" =>
               physicsObjects[releaseCall[k].object].velocity[2] > 0

\* a throw after the hand moved down by more than 0.05
C19_Witness ==
    /\ pc = "integrate"
    /\ Len(releaseCall) = 1
    /\ ~ShortThrow(releaseCall[1].history)
    /\ releaseCall[1].history[Len(releaseCall[1].history)][2]
           < releaseCall[1].history[1][2] - 50

\* the relative velocity of the two bodies of a resolveCollision call along
\* the normal from the second to the first
VelAlongNormal(call) ==
    VDotUnit(VSub(call.before[1].velocity, call.before[2].velocity),
             VNormalize(VSub(call.before[1].position, call.before[2].position)))

\* positions, velocities and angular velocities are as before the call
CallChangedNothing(call) ==
    \A b \in {1, 2} :
        /\ call.after[b].position = call.before[b].position
        /\ call.after[b].velocity = call.before[b].velocity
        /\ call.after[b].angularVelocity = call.before[b].angularVelocity

\* C20 as stated: a resolveCollision call with relative velocity along the
\* normal greater than or equal to zero changes nothing.
C20_NoChangeWhenNotApproaching ==
    \A k \in 1..Len(resolveCalls) :
        VelAlongNormal(resolveCalls[k]) >= 0 => CallChangedNothing(resolveCalls[k])

\* C20: a resolveCollision call with relative velocity along the normal
\* strictly greater than zero changes nothing; with exactly zero the
\* velocities stay and overlapping bodies with distinct centres are pushed
\* apart.
C20_NoChangeWhenSeparating ==
    \A k \in 1..Len(resolveCalls) :
        LET call == resolveCalls[k]
        IN  /\ VelAlongNormal(call) > 0 => CallChangedNothing(call)
            /\ VelAlongNormal(call) = 0 =>
                   /\ \A b \in {1, 2} : call.after[b].velocity = call.before[b].velocity
                   /\ (DistSq(call.before) > 0 /\ DistSq(call.before) < 499 * 499)
                          => DistSq(call.after) > DistSq(call.before)

\* resolveCollision was called on overlapping bodies that move apart
C20_Witness ==
    /\ pc = "sample"
    /\ \E k \in 1..Len(resolveCalls) :
          /\ VelAlongNormal(resolveCalls[k]) > 0
          /\ CallChangedNothing(resolveCalls[k])

\* the bodies p[1] and p[2] are both free and their centres coincide
CoincidentCentres(p) ==
    /\ p[1] # heldObject /\ p[2] # heldObject
    /\ ~physicsObjects[p[1]].isHeld /\ ~physicsObjects[p[2]].isHeld
    /\ physicsObjects[p[1]].position = physicsObjects[p[2]].position

\* C21 as stated: a collision pass leaves two free bodies whose centres
\* coincide exactly as they were: same position, velocity and angular
\* velocity after the pass as before it.
C21_CoincidentCentresSkipped ==
    [][ pc = "collide" =>
          \A p \in Pairs :
              CoincidentCentres(p) =>
                  \A i \in {p[1], p[2]} :
                      /\ physicsObjects'[i].position = physicsObjects[i].position
                      /\ physicsObjects'[i].velocity = physicsObjects[i].velocity
                      /\ physicsObjects'[i].angularVelocity
                             = physicsObjects[i].angularVelocity ]_vars

\* the collision normal of a resolveCollision call, from the second body to
\* the first, in 1/1000
CollisionNormal(call) ==
    VNormalize(VSub(call.before[1].position, call.before[2].position))

\* the relative velocity of the two bodies along that normal after the call
VelAlongNormalAfter(call) ==
    VDotUnit(VSub(call.after[1].velocity, call.after[2].velocity),
             CollisionNormal(call))

\* what the 1/1000 rounding of the normal and of the products can add to a
\* velocity of size v: 1 percent and 5 mm/s
RoundingSlack(v) == Quot(Abs(v), 100) + 5

\* C22: a resolveCollision call that is not skipped (the bodies do not move
\* apart) leaves the sum of the two linear velocities unchanged, and the
\* relative velocity along the collision normal after it is -0.7 times the
\* one before it.
C22_MomentumAndRestitution ==
    \A k \in 1..Len(resolveCalls) :
        LET call == resolveCalls[k]
            before == VelAlongNormal(call)
        IN  before <= 0 =>
                /\ VAdd(call.after[1].velocity, call.after[2].velocity)
                       = VAdd(call.before[1].velocity, call.before[2].velocity)
                /\ Abs(VelAlongNormalAfter(call)
                         - Quot(-COLLISION_ELASTICITY * before, 1000))
                       <= RoundingSlack(before)

\* two bodies that approached each other along an oblique normal have been
\* resolved and now move apart
C22_Witness ==
    /\ pc = "sample"
    /\ \E k \in 1..Len(resolveCalls) :
          /\ VelAlongNormal(resolveCalls[k]) < -1000
          /\ CollisionNormal(resolveCalls[k])[1] # 0
          /\ CollisionNormal(resolveCalls[k])[2] # 0
          /\ VelAlongNormalAfter(resolveCalls[k]) > 700

\* C23: A.checkCollision(B) returns true exactly when neither body is held,
\* the centres are closer than the sum of the radii, and at least 100 ms have
\* passed since A.lastCollisionTime; it sets A.lastCollisionTime to the
\* current time exactly when it returns true, and never changes
\* B.lastCollisionTime.
C23_CheckCollision ==
    [][ pc = "check" =>
          LET A == physicsObjects[1]
              B == physicsObjects[2]
              hit == /\ ~A.isHeld /\ ~B.isHeld
                     /\ DistSq(<<A, B>>)
                            < (BALL_RADIUS + BALL_RADIUS) * (BALL_RADIUS + BALL_RADIUS)
                     /\ now - A.lastCollisionTime >= 100
          IN  /\ (pc' = "resolve") <=> hit
              /\ physicsObjects'[1].lastCollisionTime
                     = IF hit THEN now ELSE A.lastCollisionTime
              /\ physicsObjects'[2].lastCollisionTime = B.lastCollisionTime ]_vars

\* checkCollision has returned true for a body that last collided exactly
\* 100 ms before, and stamped it; the other body's own recent collision time
\* is as it was
C23_Witness ==
    /\ pc = "resolve"
    /\ physicsObjects[1].lastCollisionTime = now
    /\ physicsObjects[2].lastCollisionTime = PairTime - 50
    /\ ~physicsObjects[1].isHeld /\ ~physicsObjects[2].isHeld

\* the calls of this frame's collision pass that body i took part in
CallsOf(calls, i) ==
    { k \in 1..Len(calls) : calls[k].pair[1] = i \/ calls[k].pair[2] = i }

\* body i as calls[k] found it (when = "before") or left it (when = "after")
BodyInCall(calls, k, i, when) ==
    IF calls[k].pair[1] = i THEN calls[k][when][1] ELSE calls[k][when][2]

\* C24: a collision pass changes neither position, velocity, angular velocity
\* nor lastCollisionTime of the held body, and each resolveCollision(A, B)
\* changes only A and B: a body is changed by nothing but the calls it took
\* part in, so a body in no call is after the pass as before it.
C24_OnlyCollidingBodiesChange ==
    [][ pc = "collide" =>
          /\ heldObject # 0 =>
                 /\ physicsObjects'[heldObject] = physicsObjects[heldObject]
                 /\ CallsOf(resolveCalls', heldObject) = {}
          /\ \A i \in Bodies :
                 LET mine == CallsOf(resolveCalls', i)
                 IN  /\ mine = {} => physicsObjects'[i] = physicsObjects[i]
                     /\ \A k \in mine :
                            /\ BodyInCall(resolveCalls', k, i, "before")
                                   = IF \E h \in mine : h < k
                                     THEN BodyInCall(resolveCalls',
                                              CHOOSE h \in mine :
                                                  /\ h < k
                                                  /\ \A g \in mine : g < k => g <= h,
                                              i, "after")
                                     ELSE physicsObjects[i]
                            /\ (\A h \in mine : h <= k) =>
                                   physicsObjects'[i]
                                       = BodyInCall(resolveCalls', k, i, "after") ]_vars

\* a pass has run with a body held within reach of a free one: the held
\* body was in no call
C24_Witness ==
    /\ pc = "sample"
    /\ heldObject # 0 /\ physicsObjects[heldObject].isHeld
    /\ \E i \in Bodies \ {heldObject} :
          VCloser(physicsObjects[i].position, physicsObjects[heldObject].position,
                  BALL_RADIUS + BALL_RADIUS)
    /\ CallsOf(resolveCalls, heldObject) = {}

\* C25: the physics step of a frame moves the held body 0.8 of the way from
\* its position to the hand position and does nothing else to it: no gravity
\* and no velocity (it stays at rest), no ground clamp and no boundary
\* reflection of the new position.
C25_HeldBodyFollowsHand ==
    [][ (pc = "integrate" /\ heldObject # 0) =>
          LET old == physicsObjects[heldObject]
              target == handIndicator.position
          IN  /\ \A c \in 1..3 :
                     physicsObjects'[heldObject].position[c]
                         = old.position[c] + Quot((target[c] - old.position[c]) * 800, 1000)
              /\ physicsObjects'[heldObject].velocity = old.velocity
              /\ physicsObjects'[heldObject].velocity = Zero3
              /\ physicsObjects'[heldObject].angularVelocity = Zero3
              /\ physicsObjects'[heldObject].isHeld
              /\ physicsObjects'[heldObject].lastCollisionTime = old.lastCollisionTime ]_vars

\* the held body has been moved part of the way to a hand that is below the
\* height at which a free body rests, and is below that height itself
C25_Witness ==
    /\ pc = "collide" /\ heldObject # 0
    /\ physicsObjects[heldObject].position # handIndicator.position
    /\ handIndicator.position[2] < GROUND_Y + BALL_RADIUS
    /\ physicsObjects[heldObject].position[2] < GROUND_Y + BALL_RADIUS

\* C26: the steps of a frame run in the order sensor, interaction,
\* integration, collision, the frame counter advancing with the sensor step
\* only, so each frame has one integration step; that step updates every body
\* once, the held one by the hand-follow step and the others by the free-body
\* step. A body grabbed in the interaction step of the frame is the held one
\* in its integration step, and a body released in it is a free one.
C26_PhaseOrder ==
    [][ ( pc = "sample" => (pc' = "interact" /\ tick' = tick + 1) )
        /\
        ( pc = "interact" =>
             ( /\ pc' = "integrate" /\ tick' = tick
               /\ grabCall' # 0 =>
                      (heldObject' = grabCall' /\ physicsObjects'[grabCall'].isHeld)
               /\ \A k \in 1..Len(releaseCall') :
                      /\ heldObject' # releaseCall'[k].object
                      /\ ~physicsObjects'[releaseCall'[k].object].isHeld ) )
        /\
        ( pc = "integrate" =>
             ( /\ pc' = "collide" /\ tick' = tick
               /\ \A i \in Bodies :
                      physicsObjects'[i] =
                          IF i = heldObject
                          THEN UpdateHeld(physicsObjects[i], handIndicator.position)
                          ELSE UpdateFree(physicsObjects[i], deltaTime)
               /\ grabCall # 0 =>
                      physicsObjects'[grabCall] =
                          UpdateHeld(physicsObjects[grabCall], handIndicator.position)
               /\ \A k \in 1..Len(releaseCall) :
                      physicsObjects'[releaseCall[k].object] =
                          UpdateFree(physicsObjects[releaseCall[k].object], deltaTime) ) )
        /\
        ( pc = "collide" => (pc' = "sample" /\ tick' = tick) )
      ]_vars

\* the body thrown in this frame has been integrated in this frame: 16 ms
\* after release() it is in flight, above where the hand let it go
C26_Witness ==
    /\ pc = "collide" /\ deltaTime = 16
    /\ Len(releaseCall) = 1
    /\ ~physicsObjects[releaseCall[1].object].isHeld
    /\ physicsObjects[releaseCall[1].object].velocity[2] > 0
    /\ physicsObjects[releaseCall[1].object].velocity[2]
           < Quot(releaseCall[1].direction[2] * releaseCall[1].force, 1000)

\* C27: after the integration step of a body that is not held, |x| and |z|
\* of its position are at most 10 - radius; a coordinate that lay beyond the
\* bound is put on the bound on its side and the velocity component of that
\* coordinate is multiplied by -0.5; a coordinate within the bound and its
\* velocity component are left alone, whatever happens to the other one.
C27_KeptInArena ==
    [][ pc = "integrate" =>
          \A i \in Bodies \ {heldObject} :
              LET pre == BeforeBoundaryCheck(physicsObjects[i], deltaTime)
                  post == physicsObjects'[i]
              IN  /\ Abs(post.position[1]) <= BOUND_X - BALL_RADIUS
                  /\ Abs(post.position[3]) <= BOUND_Z - BALL_RADIUS
                  /\ post.position[2] = pre.position[2]
                  /\ post.velocity[2] = pre.velocity[2]
                  /\ \A c \in {1, 3} :
                         IF Abs(pre.position[c]) > 10000 - BALL_RADIUS
                         THEN /\ Abs(post.position[c]) = 10000 - BALL_RADIUS
                              /\ post.position[c] * pre.position[c] > 0
                              /\ post.velocity[c] = Quot(pre.velocity[c] * (-500), 1000)
                         ELSE /\ post.position[c] = pre.position[c]
                              /\ post.velocity[c] = pre.velocity[c] ]_vars

\* body 1 flew into the wall x = 10 and has been put on the bound, moving
\* back at half its speed, with its velocity along z kept (damped only)
C27_Witness ==
    /\ pc = "collide"
    /\ physicsObjects[1].position[1] = BOUND_X - BALL_RADIUS
    /\ physicsObjects[1].velocity[1] = -980
    /\ Abs(physicsObjects[1].position[3]) < BOUND_Z - BALL_RADIUS

\* the integration step of body o finds it in contact with the ground
GroundContact(o, dt) == Advance(o, dt).position[2] < GROUND_Y + BALL_RADIUS

C29_ZeroDirectionKeepsVelocity ==
    [][ pc = "release" =>
          (releaseCall'[1].direction = Zero3 =>
               physicsObjects'[1].velocity = physicsObjects[1].velocity) ]_vars

\* the bodies without their highlight
StripEmissive(objs) == [ i \in Bodies |-> [objs[i] EXCEPT !.emissive = 0] ]

\* the bodies as they are, with other emissive colours: every choice of
\* the bodies that are highlighted, and all bodies in the colour of a
\* grabbed one
EmissiveVariants(objs) ==
    { [ i \in Bodies |-> [objs[i] EXCEPT !.emissive = f[i]] ] :
          f \in [Bodies -> {0, HIGHLIGHT_EMISSIVE}] }
    \cup
    { [ i \in Bodies |-> [objs[i] EXCEPT !.emissive = GRAB_EMISSIVE] ] }

\* the hand indicator as it is, with other colours
IndicatorVariants(indicator) ==
    { [ indicator EXCEPT !.emissive = e, !.color = c ] :
          e \in { <<204, 170, 0>>, <<0, 50, 255>> },
          c \in { GRABBING_COLOR, IDLE_COLOR } }

\* C30: grab, hold and throw do not depend on the highlights. Whatever the
\* emissive colours of the bodies and the colours of the hand indicator are
\* in a state, each step of a frame taken from it gives the heldObject, the
\* grab() and release() calls with their arguments, and the positions,
\* velocities, held flags and collision times of the bodies that the same
\* step gives from the state with other colours; so two runs that differ in
\* the colours only go through the same heldObject values and calls.
C30_HighlightIndependent ==
    [][ /\ \A v \in EmissiveVariants(physicsObjects) :
             /\ pc = "sample" =>
                    /\ heldObject' = heldObject
                    /\ StripEmissive(physicsObjects') = StripEmissive(v)
             /\ pc = "interact" =>
                    LET cands == GrabCandidates(v, handTracker.screenPosition,
                                                handIndicator.position)
                        grabbed == IF handTracker.isGrabbing /\ heldObject = 0
                                      /\ Len(cands) > 0
                                   THEN cands[1].object ELSE 0
                        thrown == IF ~handTracker.isGrabbing THEN heldObject ELSE 0
                        throw == ThrowParameters(handPositionHistory, deltaTime)
                    IN  /\ grabCall' = grabbed
                        /\ heldObject' = IF grabbed # 0 THEN grabbed
                                         ELSE IF thrown # 0 THEN 0 ELSE heldObject
                        /\ releaseCall' =
                               IF thrown # 0
                               THEN << [ object |-> thrown,
                                         direction |-> throw.direction,
                                         force |-> throw.force,
                                         history |-> handPositionHistory ] >>
                               ELSE <<>>
                        /\ \E rnd \in RandomTriples :
                               StripEmissive(physicsObjects') =
                                   StripEmissive(
                                       IF grabbed # 0
                                       THEN [v EXCEPT ![grabbed] = Grab(@)]
                                       ELSE IF thrown # 0
                                       THEN [v EXCEPT ![thrown] =
                                                Release(@, throw.direction,
                                                        throw.force, rnd)]
                                       ELSE v)
             /\ pc = "integrate" =>
                    StripEmissive(physicsObjects') =
                        StripEmissive(
                            [ i \in Bodies |->
                                Update(v[i], deltaTime,
                                       IF i = heldObject THEN handIndicator.position
                                       ELSE <<>>) ])
             /\ pc = "collide" =>
                    \E rnd \in RandomTriples :
                        LET s == CollisionPass([objs |-> v, calls |-> <<>>], <<1, 2>>,
                                               heldObject, now, rnd)
                        IN  /\ StripEmissive(physicsObjects') = StripEmissive(s.objs)
                            /\ Len(resolveCalls') = Len(s.calls)
                            /\ \A k \in 1..Len(s.calls) :
                                   resolveCalls'[k].pair = s.calls[k].pair
        /\ \A c \in IndicatorVariants(handIndicator) :
             /\ pc = "interact" =>
                    (grabCall' # 0 =>
                         grabCall' = GrabCandidates(physicsObjects,
                                                    handTracker.screenPosition,
                                                    c.position)[1].object)
             /\ (pc = "integrate" /\ heldObject # 0) =>
                    physicsObjects'[heldObject] =
                        Update(physicsObjects[heldObject], deltaTime, c.position)
      ]_vars

\* a body has been grabbed in a frame in which another body carries the
\* highlight of the bodies in reach
C30_Witness ==
    /\ pc = "integrate"
    /\ grabCall # 0 /\ physicsObjects[grabCall].emissive = GRAB_EMISSIVE
    /\ \E i \in Bodies \ {grabCall} : physicsObjects[i].emissive = HIGHLIGHT_EMISSIVE
    /\ \E i \in Bodies : physicsObjects[i].emissive = 0

\* the bodies whose isHeld flag is set
HeldBodies == { i \in Bodies : physicsObjects[i].isHeld }

\* C31: between two frames (and after every step of a frame) at most one
\* body has isHeld set, and heldObject is that body exactly when there is
\* one: heldObject = b iff b.isHeld, and heldObject is null iff no body is
\* held.
C31_OneHeldBody ==
    /\ Cardinality(HeldBodies) <= 1
    /\ \A b \in Bodies : (heldObject = b) <=> physicsObjects[b].isHeld
    /\ (heldObject = 0) <=> (HeldBodies = {})

\* a body grabbed in an earlier frame is held at a frame boundary while
\* other bodies fall
C31_Witness ==
    /\ pc = "sample"
    /\ heldObject # 0 /\ HeldBodies = {heldObject}
    /\ lastGrabTick < tick
    /\ \E i \in Bodies \ {heldObject} : physicsObjects[i].velocity # Zero3

\* another body than the held one is within the grab radius of the hand or
\* hit by the ray through the hand
OtherBodyInReach ==
    \E i \in Bodies \ {heldObject} :
        \/ VDist(physicsObjects[i].position, handIndicator.position) < GRAB_THRESHOLD
        \/ RayIntersect(physicsObjects[i].position,
                        RayDirection(handTracker.screenPosition)) # <<>>

\* C32: a held body stays the held one for as long as isGrabbing stays true:
\* the interaction step of a frame with isGrabbing true and a body held keeps
\* heldObject, calls neither grab() nor release() and sets no other body's
\* isHeld, whatever other bodies are in reach; and no other step of a frame
\* changes heldObject.
C32_HoldIsKept ==
    [][ /\ (pc = "interact" /\ heldObject # 0 /\ handTracker.isGrabbing) =>
               /\ heldObject' = heldObject
               /\ grabCall' = 0 /\ releaseCall' = <<>>
               /\ lastGrabTick' = lastGrabTick
               /\ \A i \in Bodies :
                      physicsObjects'[i].isHeld = (i = heldObject)
        /\ pc # "interact" => heldObject' = heldObject
      ]_vars

\* the second frame of a hold has passed its interaction step with another
\* body in reach of the hand, and the body grabbed before is still the one
\* held
C32_Witness ==
    /\ pc = "integrate"
    /\ heldObject # 0 /\ handTracker.isGrabbing
    /\ lastGrabTick < tick /\ grabCall = 0
    /\ physicsObjects[heldObject].isHeld
    /\ OtherBodyInReach

\* C33: while a body is held, and so at the moment its throw is computed,
\* every sample of handPositionHistory was recorded in a frame after the one
\* of the grab that started the hold and while that body was held; samples
\* recorded before the grab or during an earlier hold are gone.
C33_SamplesSinceGrab ==
    /\ Len(historyLog) = Len(handPositionHistory)
    /\ heldObject # 0 =>
           \A k \in 1..Len(historyLog) :
               /\ historyLog[k].tick > lastGrabTick
               /\ historyLog[k].held = heldObject

\* the hand was seen before the grab, the body was held for two frames and
\* the open hand is about to throw it with the two samples of those frames
C33_Witness ==
    /\ pc = "interact"
    /\ heldObject # 0 /\ ~handTracker.isGrabbing
    /\ lastGrabTick >= 2
    /\ Len(handPositionHistory) = 2
    /\ historyLog[1].tick = lastGrabTick + 1
    /\ historyLog[2].tick = tick

\* C34: whenever the integration step of a body that is not held clamps it
\* to the ground plane, its vertical velocity after the step is not negative.
C34_ClampedBodyNotSinking ==
    [][ pc = "integrate" =>
            \A i \in Bodies :
                ( /\ ~physicsObjects[i].isHeld
                  /\ Advance(physicsObjects[i], deltaTime).position[2]
                         < GROUND_Y + BALL_RADIUS )
                => physicsObjects'[i].velocity[2] >= 0
      ]_vars

\* C35: once Game.init has completed successfully and the frames of the run
\* are over, the callback the page assigned to onReady has been invoked: the
\* last paragraph of the instructions reads "MediaPipe Ready!".
C35_ReadyCallbackInvoked ==
    (pc = "sample" /\ tick = MaxTicks /\ onReady = ShowReady) =>
        loadingMsg = ReadyText

\* C10: after the interaction step of a frame in which a body was grabbed or
\* thrown, handPositionHistory is empty.
C10_HistoryCleared ==
    (pc = "integrate" /\ (grabCall # 0 \/ releaseCall # <<>>)) =>
        handPositionHistory = <<>>

\* a throw that used recorded samples has left the history empty
C10_Witness ==
    /\ pc = "integrate"
    /\ Len(releaseCall) = 1 /\ Len(releaseCall[1].history) > 0
    /\ handPositionHistory = <<>>

====
